---- MODULE Spec2Model ----
(***************************************************************************)
(* Repack: the scheduling and state engine.                                *)
(*   repack/core/kit.py        KitTarget, Kit                              *)
(*   repack/core/state.py      TargetStatus, StateManager                  *)
(*   repack/executor/local.py  LocalExecutor (worker pool, futures, lock)  *)
(*   repack/executor/lsf.py    LSFExecutor (bsub, polling wait)            *)
(*   repack/engine/manager.py  RepackEngine.run                            *)
(* One driver thread runs RepackEngine.run; the pool's worker threads run  *)
(* LocalExecutor._run_job and the completion callbacks.  Every thread has  *)
(* a call stack of frames, so that a done-callback invoked synchronously   *)
(* by Future.set_result / set_exception / add_done_callback runs in the    *)
(* thread that made the call, on top of the frame that made it.            *)
(*                                                                         *)
(* Seven specifications share the variables:                               *)
(*   Spec      the whole run; StateManager._flush is one step              *)
(*   SpecIO    the same run with _flush split at open() and close(), so    *)
(*             that two threads' rewrites of the status file interleave    *)
(*   SpecPlan  collection, graph, sort and dispatch of RepackEngine.run    *)
(*             over kit lists with cycles, repeated and missing PVTs       *)
(*   SpecSM    a StateManager alone: initialize, set_status, edits of the  *)
(*             status file between two managers                            *)
(*   SpecLSF   the whole run with an LSFExecutor and the cluster           *)
(*   SpecClient  an LSFExecutor called directly: submit and wait           *)
(*   SpecLocal   a LocalExecutor called directly, with dependency ids that *)
(*             were never submitted                                        *)
(***************************************************************************)
EXTENDS Integers, Sequences, FiniteSets, TLC

\* Largest worker pool the model builds (LocalExecutor(max_workers)).
MaxWorkers == 2

------------------------------------------------------------------------------
(* Generic helpers over sequences *)

Range(s) == {s[i] : i \in DOMAIN s}

RECURSIVE Flatten(_)
Flatten(ss) == IF ss = <<>> THEN <<>> ELSE Head(ss) \o Flatten(Tail(ss))

RECURSIVE Filter(_, _)
\* the elements of s that are in the set keep, in the order of s
Filter(s, keep) ==
    IF s = <<>> THEN <<>>
    ELSE (IF Head(s) \in keep THEN <<Head(s)>> ELSE <<>>) \o Filter(Tail(s), keep)

------------------------------------------------------------------------------
(* repack/core/kit.py *)

\* KitTarget.pvt is Optional[str]; NoPvt stands for None.
NoPvt == "<None>"

KitTarget(kit_name, pvt) == [kit_name |-> kit_name, pvt |-> pvt]

\* KitTarget.id
TargetId(t) ==
    IF t.pvt # NoPvt /\ t.pvt # ""
    THEN t.kit_name \o "::" \o t.pvt
    ELSE t.kit_name \o "::ALL"

------------------------------------------------------------------------------
(* repack/core/state.py *)

\* TargetStatus: the members, named by their values
TargetStatus == {"PENDING", "RUNNING", "PASS", "FAIL"}

\* ParseStatus that keeps a string that is no member of TargetStatus
ParseStatus_Keep(status_str) == status_str

\* TargetStatus(status_str) with the ValueError fallback of initialize
ParseStatus(status_str) ==
    IF status_str \in TargetStatus THEN status_str ELSE "PENDING"

\* A dict is a sequence of <<key, value>> pairs in insertion order.
DictKeys(d) == {d[i][1] : i \in DOMAIN d}

DictHas(d, k) == k \in DictKeys(d)

DictGet(d, k, default) ==
    IF DictHas(d, k)
    THEN d[CHOOSE i \in DOMAIN d : d[i][1] = k][2]
    ELSE default

\* d[k] = v : replaces the value in place, or appends a new key
DictSet(d, k, v) ==
    IF DictHas(d, k)
    THEN [i \in DOMAIN d |-> IF d[i][1] = k THEN <<k, v>> ELSE d[i]]
    ELSE Append(d, <<k, v>>)

RECURSIVE DictFromRows(_, _)
\* loaded_state[tid] = status for each row, later rows overriding
DictFromRows(rows, d) ==
    IF rows = <<>> THEN d
    ELSE DictFromRows(Tail(rows),
                      IF Len(Head(rows)) >= 2
                      THEN DictSet(d, Head(rows)[1], ParseStatus(Head(rows)[2]))
                      ELSE d)

RECURSIVE Reconcile(_, _)
\* step 3 of initialize: add missing targets as PENDING
Reconcile(d, all_targets) ==
    IF all_targets = <<>> THEN d
    ELSE Reconcile(IF DictHas(d, TargetId(Head(all_targets)))
                   THEN d
                   ELSE Append(d, <<TargetId(Head(all_targets)), "PENDING">>),
                   Tail(all_targets))

\* The status file: whether it exists, and its bytes.
NoFile == [exists |-> FALSE, content |-> ""]

\* the character of s at position i, "" beyond the ends
CharAt(s, i) == IF i \in 1..Len(s) THEN SubSeq(s, i, i) ELSE ""

\* the positions of s that hold one of the characters cs
Positions(s, cs) == {i \in 1..Len(s) : CharAt(s, i) \in cs}

RECURSIVE Doubled(_, _)
\* the cell from position i on with every quote character doubled
Doubled(cell, i) ==
    IF i > Len(cell) THEN ""
    ELSE (IF CharAt(cell, i) = "\"" THEN "\"\"" ELSE CharAt(cell, i))
         \o Doubled(cell, i + 1)

\* QuoteField that writes every cell as it is
QuoteField_Raw(cell) == cell

\* csv.writer, QUOTE_MINIMAL: a cell that holds the delimiter, the quote
\* character or a character of the line terminator is written between
\* quotes, its quotes doubled
QuoteCell(cell) ==
    IF Positions(cell, {",", "\"", "\r", "\n"}) = {} THEN cell
    ELSE "\"" \o Doubled(cell, 1) \o "\""

\* the cells most files are made of, the header, the status names and the
\* ids of kits A, B, C, that QuoteCell leaves as they are: worked out once
PlainCells ==
    {cell \in {"id", "status", "PENDING", "RUNNING", "PASS", "FAIL"}
                \cup {k \o "::" \o pvt : k \in {"A", "B", "C"},
                                         pvt \in {"ALL", "p1", "p2", "p3"}} :
        QuoteCell(cell) = cell}

\* what csv.writer writes for a cell
QuoteField(cell) == IF cell \in PlainCells THEN cell ELSE QuoteCell(cell)

\* csv.writer(f).writerow(cells): the cells joined by commas, then "\r\n"
RECURSIVE JoinCells(_)
JoinCells(cells) ==
    IF cells = <<>> THEN ""
    ELSE IF Len(cells) = 1 THEN QuoteField(Head(cells))
    ELSE QuoteField(Head(cells)) \o "," \o JoinCells(Tail(cells))

WriteRow(cells) == JoinCells(cells) \o "\r\n"

RECURSIVE WriteRows(_)
WriteRows(rows) ==
    IF rows = <<>> THEN "" ELSE WriteRow(Head(rows)) \o WriteRows(Tail(rows))

FileHeader == <<"id", "status">>

\* the bytes _flush writes: the header row, then one row per entry of the dict
FlushContent(d) == WriteRow(FileHeader) \o WriteRows(d)

\* the file after a _flush of d that nothing interleaved with
FlushOf(d) == [exists |-> TRUE, content |-> FlushContent(d)]

\* writing the bytes new at offset 0 over a file that holds the bytes old:
\* the bytes of old beyond the length of new stay in place
Overwrite(old, new) ==
    IF Len(new) >= Len(old) THEN new
    ELSE new \o SubSeq(old, Len(new) + 1, Len(old))

RECURSIVE SplitFrom(_, _, _)
\* the pieces of s from position from on, cut at the positions of seps
SplitFrom(s, from, seps) ==
    LET later == {i \in seps : i >= from}
    IN IF later = {} THEN <<SubSeq(s, from, Len(s))>>
       ELSE LET i == CHOOSE k \in later : \A m \in later : k <= m
            IN <<SubSeq(s, from, i - 1)>> \o SplitFrom(s, i + 1, seps)

\* csv.reader on one line: the cells between the commas; an empty line is
\* an empty row
ReadCells(line) ==
    IF line = "" THEN <<>>
    ELSE SplitFrom(line, 1, {i \in 1..Len(line) : CharAt(line, i) = ","})

RECURSIVE ReadLines(_, _, _)
\* the lines of s from position from on: a line ends at "\r\n", "\n" or
\* "\r" (ends holds the position of the last character of each line end);
\* text after the last line end is a last line
ReadLines(s, from, ends) ==
    LET later == {i \in ends : i >= from}
    IN IF later = {}
       THEN IF from > Len(s) THEN <<>> ELSE <<SubSeq(s, from, Len(s))>>
       ELSE LET i == CHOOSE k \in later : \A m \in later : k <= m
                last == IF CharAt(s, i) = "\n" /\ i > from /\ CharAt(s, i - 1) = "\r"
                        THEN i - 2 ELSE i - 1
            IN <<SubSeq(s, from, last)>> \o ReadLines(s, i + 1, ends)

\* csv.reader over bytes without a quote character: one row per line
ReadPlain(s) ==
    LET ends == {i \in 1..Len(s) :
                    \/ CharAt(s, i) = "\n"
                    \/ CharAt(s, i) = "\r" /\ CharAt(s, i + 1) # "\n"}
        lines == ReadLines(s, 1, ends)
    IN [k \in DOMAIN lines |-> ReadCells(lines[k])]

\* the least position of ps that is not before i, or 0 when there is none
NextAt(ps, i) ==
    LET later == {k \in ps : k >= i}
    IN IF later = {} THEN 0 ELSE CHOOSE k \in later : \A m \in later : k <= m

RECURSIVE ReadQuoted(_, _, _, _, _, _, _)
\* csv.reader (not strict) from position i of s on: st is the state of the
\* reader, field the cell and row the row it is building; qs holds the
\* positions of the quotes of s and ps those of the quotes, commas and line
\* ends.  Between quotes every character but the quote belongs to the cell,
\* and a quote there ends the quoted part unless a second quote follows;
\* elsewhere a comma ends the cell and "\r\n", "\r" or "\n" ends the row.
\* The characters up to the next position that matters are taken in one step.
ReadQuoted(s, qs, ps, i, st, field, row) ==
    LET j == NextAt(IF st = "in_quoted" THEN qs ELSE ps, i)
        text == SubSeq(s, i, IF j = 0 THEN Len(s) ELSE j - 1)
        cell == field \o text
        c == CharAt(s, j)
        at == IF text = "" \/ st = "in_quoted" THEN st ELSE "in_field"
    IN IF j = 0
       THEN IF at = "start_record" THEN <<>> ELSE <<Append(row, cell)>>
       ELSE IF at = "in_quoted"
       THEN ReadQuoted(s, qs, ps, j + 1, "quote_in_quoted", cell, row)
       ELSE IF c \in {"\r", "\n"}
       THEN <<IF at = "start_record" THEN <<>> ELSE Append(row, cell)>>
            \o ReadQuoted(s, qs, ps,
                          IF c = "\r" /\ CharAt(s, j + 1) = "\n" THEN j + 2 ELSE j + 1,
                          "start_record", "", <<>>)
       ELSE IF c = ","
       THEN ReadQuoted(s, qs, ps, j + 1, "start_field", "", Append(row, cell))
       ELSE IF at \in {"start_record", "start_field"}
       THEN ReadQuoted(s, qs, ps, j + 1, "in_quoted", cell, row)
       ELSE IF at = "quote_in_quoted"
       THEN ReadQuoted(s, qs, ps, j + 1, "in_quoted", cell \o c, row)
       ELSE ReadQuoted(s, qs, ps, j + 1, "in_field", cell \o c, row)

\* csv.reader over the bytes s
ReadRows(s) ==
    LET qs == Positions(s, {"\""})
    IN IF qs = {} THEN ReadPlain(s)
       ELSE ReadQuoted(s, qs, Positions(s, {"\"", ",", "\r", "\n"}), 1,
                       "start_record", "", <<>>)

\* the rows csv.reader yields for the file
FileRows(f) == ReadRows(f.content)

\* BadByte stands for a byte that is not valid in the encoding the file is
\* opened with: reading a file that holds one raises UnicodeDecodeError
BadByte == "~"

\* ReadRaises of a reader that never raises
ReadRaises_Never(f) == FALSE

\* reading the file raises (the files of the model are read in one chunk, so
\* the first next(reader) raises)
ReadRaises(f) == Positions(f.content, {BadByte}) # {}

\* StateManager.initialize: is_incremental (the file exists, reading it does
\* not raise, and its first row is the header)
IsIncremental(f) ==
    /\ f.exists
    /\ ~ReadRaises(f)
    /\ LET rows == FileRows(f)
       IN rows # <<>> /\ Head(rows) = FileHeader

\* StateManager.initialize: loaded_state
LoadedState(f) == DictFromRows(Tail(FileRows(f)), <<>>)

\* StateManager.initialize: the state after step 2
BranchState(f) == IF IsIncremental(f) THEN LoadedState(f) ELSE <<>>

\* StateManager.initialize: the state after step 3
InitializeState(f, all_targets) == Reconcile(BranchState(f), all_targets)

\* StateManager.get_status
GetStatus(d, tid) == DictGet(d, tid, "PENDING")

------------------------------------------------------------------------------
(* repack/engine/manager.py: steps 1, 3 and 4 of RepackEngine.run *)

\* A kit registration: the kits in registration order, and for each kit the
\* list get_dependencies() returns and the PVTs of the targets get_targets()
\* returns.
KitNames(c) == Range(c.order)

KitTargets(c, k) ==
    [i \in DOMAIN c.pvts[k] |-> KitTarget(k, c.pvts[k][i])]

\* kit_targets_map.get(dep_kit_name, [])
KitTargetsMapGet(c, k) ==
    IF k \in KitNames(c) THEN KitTargets(c, k) ELSE <<>>

AllTargets(c) ==
    Flatten([i \in DOMAIN c.order |-> KitTargets(c, c.order[i])])

AllIds(c) == {TargetId(t) : t \in Range(AllTargets(c))}

\* the PVT match of the edge derivation
Match(dt, target) ==
    dt.pvt = target.pvt \/ dt.pvt = "ALL" \/ target.pvt = "ALL"

\* the edges the loops of step 3 add for one target, as <<dt.id, target.id>>
EdgesOf(c, target) ==
    LET deps == c.deps[target.kit_name]
        perDep(i) ==
            LET dts == KitTargetsMapGet(c, deps[i])
            IN Flatten([j \in DOMAIN dts |->
                          IF Match(dts[j], target)
                          THEN << <<TargetId(dts[j]), TargetId(target)>> >>
                          ELSE <<>>])
    IN Flatten([i \in DOMAIN deps |-> perDep(i)])

\* every edge, in the order step 3 appends them
Edges(c) ==
    LET ts == AllTargets(c)
    IN Flatten([i \in DOMAIN ts |-> EdgesOf(c, ts[i])])

RECURSIVE EdgeTargets(_, _)
\* graph_out[u]: the nodes that depend on u, in append order
EdgeTargets(es, u) ==
    IF es = <<>> THEN <<>>
    ELSE (IF Head(es)[1] = u THEN <<Head(es)[2]>> ELSE <<>>)
         \o EdgeTargets(Tail(es), u)

RECURSIVE EdgeSources(_, _)
\* graph_in[v]: the nodes v depends on, in append order
EdgeSources(es, v) ==
    IF es = <<>> THEN <<>>
    ELSE (IF Head(es)[2] = v THEN <<Head(es)[1]>> ELSE <<>>)
         \o EdgeSources(Tail(es), v)

GraphOut(c, u) == EdgeTargets(Edges(c), u)

GraphIn(c, v) == EdgeSources(Edges(c), v)

\* in_degree before the sort
InDegree(c) == [id \in AllIds(c) |-> Len(GraphIn(c, id))]

RECURSIVE Relax(_, _, _)
\* the inner loop of the sort: decrement each v of outs, enqueue at zero
Relax(outs, indeg, queue) ==
    IF outs = <<>> THEN [indeg |-> indeg, queue |-> queue]
    ELSE LET v == Head(outs)
             d == indeg[v] - 1
         IN Relax(Tail(outs), [indeg EXCEPT ![v] = d],
                  IF d = 0 THEN Append(queue, v) ELSE queue)

RECURSIVE Kahn(_, _, _, _)
\* the while loop of the sort
Kahn(c, queue, indeg, sorted) ==
    IF queue = <<>> THEN sorted
    ELSE LET u == Head(queue)
             r == Relax(GraphOut(c, u), indeg, Tail(queue))
         IN Kahn(c, r.queue, r.indeg, Append(sorted, u))

\* SortedTargets that keeps the targets in the order of registration
SortedTargets_Registered(c) ==
    LET ts == AllTargets(c)
    IN [i \in DOMAIN ts |-> TargetId(ts[i])]

SortedTargets(c) ==
    LET ts == AllTargets(c)
        ids == [i \in DOMAIN ts |-> TargetId(ts[i])]
        indeg == InDegree(c)
    IN Kahn(c, Filter(ids, {id \in AllIds(c) : indeg[id] = 0}), indeg, <<>>)

\* the check after the sort
CycleDetected(c) == Len(SortedTargets(c)) # Len(AllTargets(c))

------------------------------------------------------------------------------
(* The kit registrations and status files the engine is run on *)

Cfg(order, deps, pvts) == [order |-> order, deps |-> deps, pvts |-> pvts]

\* C <- B <- A, one PVT each: the kits of tests/test_engine.py
ChainCfg ==
    Cfg(<<"A", "B", "C">>,
        [k \in {"A", "B", "C"} |->
            IF k = "A" THEN <<"B">> ELSE IF k = "B" THEN <<"C">> ELSE <<>>],
        [k \in {"A", "B", "C"} |-> <<"p1">>])

\* A::ALL depends on B::p1 and on B::p2
FanInCfg ==
    Cfg(<<"A", "B">>,
        [k \in {"A", "B"} |-> IF k = "A" THEN <<"B">> ELSE <<>>],
        [k \in {"A", "B"} |-> IF k = "A" THEN <<"ALL">> ELSE <<"p1", "p2">>])

\* A::p1 and A::p2 both depend on B::ALL
FanOutCfg ==
    Cfg(<<"A", "B">>,
        [k \in {"A", "B"} |-> IF k = "A" THEN <<"B">> ELSE <<>>],
        [k \in {"A", "B"} |-> IF k = "A" THEN <<"p1", "p2">> ELSE <<"ALL">>])

KitConfigs == {ChainCfg, FanInCfg, FanOutCfg}

\* no status file, or one written by _flush for the same targets in an
\* earlier run: any mix of PENDING and PASS rows, or the last target PASS
\* and before it FAIL rows (failed jobs) alternating with RUNNING rows (the
\* driver was interrupted)
InitialFiles(c) ==
    LET ts == AllTargets(c)
        File(st) == FlushOf([i \in DOMAIN ts |-> <<TargetId(ts[i]), st[i]>>])
        Rerun == [i \in DOMAIN ts |->
                     IF i = Len(ts) THEN "PASS"
                     ELSE IF i % 2 = 1 THEN "FAIL" ELSE "RUNNING"]
    IN {NoFile}
       \cup {File(st) : st \in [DOMAIN ts -> {"PENDING", "PASS"}]}
       \cup {File(Rerun)}

------------------------------------------------------------------------------
(* State *)

VARIABLES
    cfg,                   \* RepackEngine.kits
    nworkers,              \* LocalExecutor(max_workers)
    file,                  \* the status file at StateManager.status_file_path
    state,                 \* StateManager.state
    futures,               \* LocalExecutor.futures: the state of each job's Future
    done_callbacks,        \* Future._done_callbacks of each job's Future
    lock,                  \* LocalExecutor.lock: the thread that holds it
    pending_dependencies,  \* LocalExecutor.pending_dependencies
    jobs,                  \* keys of LocalExecutor.jobs
    callbacks,             \* keys of LocalExecutor.callbacks
    pool,                  \* work queue of LocalExecutor.pool
    stack,                 \* call stack of each thread, top frame first
    eng,                   \* locals of RepackEngine.run
    sub,                   \* locals of LocalExecutor.submit
    lsf,                   \* LSFExecutor: target_to_lsf and callbacks, and the
                           \* cluster behind it: its jobs and the bsub calls
    spawned,               \* history: times a worker started executing each job
    cb_calls,              \* history: times each job's on_complete was invoked
    cb_done,               \* history: times each job's on_complete returned
    hist                   \* history: the RUNNING writes, the callbacks' writes and
                           \* results, the dep ids each submit declared, the jobs
                           \* submitted before it, the submit calls per id, the
                           \* deps each dormant job waited for, the value last
                           \* written per id, whether a _flush of the driver
                           \* overlapped a _flush of a callback, whether the
                           \* StateManager is new, the history of the status
                           \* file and of the last initialize call

vars == <<cfg, nworkers, lsf, file, state, futures, done_callbacks, lock,
          pending_dependencies, jobs, callbacks, pool, stack, eng, sub,
          spawned, cb_calls, cb_done, hist>>

Driver == 0
Workers == 1..nworkers
Threads == 0..MaxWorkers
Free == -1

Frame(fn, pc, job, dep, ok, val, q) ==
    [fn |-> fn, pc |-> pc, job |-> job, dep |-> dep, ok |-> ok, val |-> val, q |-> q]

Top(t) == Head(stack[t])
At(t, fn, pc) == stack[t] # <<>> /\ Top(t).fn = fn /\ Top(t).pc = pc

\* the stack of t with its top frame replaced by the frames fs
Replace(t, fs) == [stack EXCEPT ![t] = fs \o Tail(@)]
Pop(t) == Replace(t, <<>>)
Goto(t, pc) == Replace(t, <<[Top(t) EXCEPT !.pc = pc]>>)

\* Future.done()
FutureDone(id) == futures[id] \in {"RESULT", "EXCEPTION"}

\* the frames of a call of the engine's on_complete(job_id, success):
\* callback() calls state_manager.set_status(target_id, PASS or FAIL)
CallbackFrames(job, success) ==
    << Frame("set_status", "write", job, "", success,
             IF success THEN "PASS" ELSE "FAIL", <<>>),
       Frame("callback", "return", job, "", success, "", <<>>) >>

\* the frames of Future._invoke_callbacks over the callbacks q
InvokeFrames(q) ==
    IF q = <<>> THEN <<>>
    ELSE << Frame("invoke_callbacks", "loop", "", "", FALSE, "", q) >>

\* history of the status file: whether its bytes are those a _flush wrote
\* and nothing changed since, the map that _flush wrote, and the id of a row
\* the user flipped from PASS to PENDING since
OnDisk(by_sm, map, edited) == [by_sm |-> by_sm, map |-> map, edited |-> edited]

NotOnDisk == OnDisk(FALSE, <<>>, "")

\* history of the call of StateManager.initialize that has just returned:
\* its arguments, the times it called the clean hook, what it returned,
\* whether the manager held entries and whether it was new when called, the
\* file it found and the history of that file
NoInit ==
    [called |-> FALSE, all_targets |-> <<>>, hook |-> FALSE, cleaned |-> 0,
     ret |-> FALSE, held |-> FALSE, fresh |-> FALSE, before |-> NoFile,
     written |-> NotOnDisk]

\* an LSFExecutor after __init__ and a cluster without jobs; bsub is the
\* history of the bsub calls, wait_calls of the wait calls, reports of what
\* each wait call learned from the cluster
NoLsf ==
    [target_to_lsf |-> <<>>, callbacks |-> {}, backend |-> <<>>, bsub |-> <<>>,
     wait_calls |-> <<>>, reports |-> {}]

\* the program after construction: RepackEngine(kits c, StateManager(path of
\* the file f), executor), the driver about to call run; executor is
\* "local" for LocalExecutor(max_workers = n) and "lsf" for an LSFExecutor;
\* main is the frame the driver starts in
StartAs(c, f, n, executor, main) ==
    /\ cfg = c
    /\ nworkers = n
    /\ lsf = NoLsf
    /\ file = f
    /\ state = <<>>
    /\ futures = [id \in AllIds(cfg) |-> "NONE"]
    /\ done_callbacks = [id \in AllIds(cfg) |-> <<>>]
    /\ lock = Free
    /\ pending_dependencies = <<>>
    /\ jobs = {}
    /\ callbacks = {}
    /\ pool = <<>>
    /\ stack = [t \in Threads |->
                  IF t = Driver THEN <<main>> ELSE <<>>]
    /\ eng = [graph_in |-> <<>>, sorted_targets |-> <<>>, i |-> 1,
              submitted_jobs |-> {}, start_status |-> <<>>,
              executor |-> executor]
    /\ sub = [pending |-> {}, dependency_failed |-> FALSE]
    /\ spawned = [id \in AllIds(cfg) |-> 0]
    /\ cb_calls = [id \in AllIds(cfg) |-> 0]
    /\ cb_done = [id \in AllIds(cfg) |-> 0]
    /\ hist = [running_written |-> {}, cb_written |-> {},
               submit_before_running |-> {}, cb_success |-> {},
               declared |-> [id \in AllIds(cfg) |-> {}],
               earlier |-> [id \in AllIds(cfg) |-> {}],
               waited_for |-> [id \in AllIds(cfg) |-> {}],
               last_value |-> [id \in AllIds(cfg) |-> ""],
               driver_overlap |-> FALSE,
               submit_calls |-> [id \in AllIds(cfg) |-> 0],
               fresh |-> TRUE, on_disk |-> NotOnDisk, last_init |-> NoInit]

\* the driver about to call RepackEngine.run
StartWith(c, f, n, executor) ==
    StartAs(c, f, n, executor, Frame("run", "start", "", "", FALSE, "", <<>>))

\* the program with a LocalExecutor(max_workers = n)
Start(c, f, n) == StartWith(c, f, n, "local")

Init ==
    \E c \in KitConfigs : \E f \in InitialFiles(c) : \E n \in 1..MaxWorkers :
        Start(c, f, n)

------------------------------------------------------------------------------
(* repack/engine/manager.py: RepackEngine.run on the driver thread *)

\* steps 1-4: collect targets, initialize the state, build the graph, sort
Run_Prepare ==
    /\ At(Driver, "run", "start")
    /\ LET reconciled == InitializeState(file, AllTargets(cfg))
       IN /\ state' = reconciled
          /\ file' = FlushOf(reconciled)
          /\ eng' = [eng EXCEPT
                        !.graph_in = [id \in AllIds(cfg) |-> GraphIn(cfg, id)],
                        !.sorted_targets = SortedTargets(cfg),
                        !.start_status = reconciled]
    /\ stack' = Goto(Driver, IF CycleDetected(cfg) THEN "raised" ELSE "dispatch")
    /\ UNCHANGED <<cfg, nworkers, lsf, futures, done_callbacks, lock,
                   pending_dependencies, jobs, callbacks, pool, sub,
                   spawned, cb_calls, cb_done, hist>>

\* Skip that never holds: the status test is left out
Skip_Never(tid) == FALSE

\* Skip that takes FAIL for done as well
Skip_Failed(tid) == GetStatus(state, tid) \in {"PASS", "FAIL"}

\* step 5: status = get_status(tid); if status == TargetStatus.PASS
Skip(tid) == GetStatus(state, tid) = "PASS"

\* RunDeps without the membership test: every predecessor is declared
RunDeps_All(tid) == eng.graph_in[tid]

\* step 5: run_deps, the entries of graph_in[tid] that are in submitted_jobs
RunDeps(tid) == Filter(eng.graph_in[tid], eng.submitted_jobs)

\* step 5, a target that is PASS: continue
Run_Skip ==
    /\ At(Driver, "run", "dispatch")
    /\ eng.i <= Len(eng.sorted_targets)
    /\ Skip(eng.sorted_targets[eng.i])
    /\ eng' = [eng EXCEPT !.i = @ + 1]
    /\ UNCHANGED <<cfg, nworkers, lsf, file, state, futures, done_callbacks, lock,
                   pending_dependencies, jobs, callbacks, pool, stack, sub,
                   spawned, cb_calls, cb_done, hist>>

\* step 5, any other target: build run_deps and the job, call
\* executor.submit; LocalExecutor.submit first records the job and its
\* callback (self.jobs[job.id] = job; self.callbacks[job.id] = on_complete)
Run_Submit ==
    /\ At(Driver, "run", "dispatch")
    /\ eng.i <= Len(eng.sorted_targets)
    /\ LET tid == eng.sorted_targets[eng.i]
           run_deps == RunDeps(tid)
       IN /\ ~Skip(tid)
          /\ stack' = Replace(Driver,
                 << IF eng.executor = "lsf"
                    THEN Frame("lsf_submit", "bsub", tid, "", TRUE, "", run_deps)
                    ELSE Frame("submit", "lock", tid, "", FALSE, "", run_deps),
                    Frame("run", "after_submit", tid, "", FALSE, "", <<>>) >>)
          /\ jobs' = IF eng.executor = "lsf" THEN jobs ELSE jobs \cup {tid}
          /\ callbacks' = IF eng.executor = "lsf" THEN callbacks
                          ELSE callbacks \cup {tid}
          /\ hist' = [hist EXCEPT
                        !.declared[tid] = Range(run_deps),
                        !.earlier[tid] =
                            {id \in AllIds(cfg) : hist.submit_calls[id] > 0},
                        !.submit_calls[tid] = @ + 1,
                        !.submit_before_running =
                            IF tid \in hist.running_written THEN @ ELSE @ \cup {tid}]
    /\ UNCHANGED <<cfg, nworkers, lsf, file, state, futures, done_callbacks, lock,
                   pending_dependencies, pool, eng, sub,
                   spawned, cb_calls, cb_done>>

\* step 5 after submit returned: submitted_jobs.add(tid), then call
\* state_manager.set_status(tid, RUNNING)
Run_MarkRunning ==
    /\ At(Driver, "run", "after_submit")
    /\ eng' = [eng EXCEPT !.submitted_jobs = @ \cup {Top(Driver).job},
                          !.i = @ + 1]
    /\ stack' = Replace(Driver,
           << Frame("set_status", "write", Top(Driver).job, "", FALSE, "RUNNING", <<>>),
              Frame("run", "dispatch", "", "", FALSE, "", <<>>) >>)
    /\ UNCHANGED <<cfg, nworkers, lsf, file, state, futures, done_callbacks, lock,
                   pending_dependencies, jobs, callbacks, pool, sub,
                   spawned, cb_calls, cb_done, hist>>

\* step 6: call executor.wait(list(submitted_jobs))
Run_Wait ==
    /\ At(Driver, "run", "dispatch")
    /\ eng.i > Len(eng.sorted_targets)
    /\ stack' = Replace(Driver,
           << IF eng.executor = "lsf"
              THEN Frame("lsf_wait", "enter", "", "", FALSE, "",
                         Filter(eng.sorted_targets, eng.submitted_jobs))
              ELSE Frame("wait", "lock", "", "", FALSE, "", <<>>),
              Frame("run", "done", "", "", FALSE, "", <<>>) >>)
    /\ UNCHANGED <<cfg, nworkers, lsf, file, state, futures, done_callbacks, lock,
                   pending_dependencies, jobs, callbacks, pool, eng, sub,
                   spawned, cb_calls, cb_done, hist>>

------------------------------------------------------------------------------
(* repack/core/state.py: StateManager.set_status, on any thread *)

\* self.state[target_id] = status
SetStatus_Write(t) ==
    /\ At(t, "set_status", "write")
    /\ state' = DictSet(state, Top(t).job, Top(t).val)
    /\ stack' = Goto(t, "flush")
    /\ hist' = [hist EXCEPT
                   !.running_written =
                       IF Top(t).val = "RUNNING" THEN @ \cup {Top(t).job} ELSE @,
                   !.cb_written =
                       IF Top(t).val = "RUNNING" THEN @ ELSE @ \cup {Top(t).job},
                   !.last_value[Top(t).job] = Top(t).val]
    /\ UNCHANGED <<cfg, nworkers, lsf, file, futures, done_callbacks, lock,
                   pending_dependencies, jobs, callbacks, pool, eng, sub,
                   spawned, cb_calls, cb_done>>

\* self._flush() as one step: no other thread runs between the open and the
\* close of the file
SetStatus_Flush(t) ==
    /\ At(t, "set_status", "flush")
    /\ file' = FlushOf(state)
    /\ stack' = Pop(t)
    /\ UNCHANGED <<cfg, nworkers, lsf, state, futures, done_callbacks, lock,
                   pending_dependencies, jobs, callbacks, pool, eng, sub,
                   spawned, cb_calls, cb_done, hist>>

\* self._flush(), first half: open(path, 'w') truncates the file, and the
\* rows of the dict are written into the buffer of the file object
SetStatus_FlushOpen(t) ==
    /\ At(t, "set_status", "flush")
    /\ file' = [exists |-> TRUE, content |-> ""]
    /\ stack' = Replace(t, <<[Top(t) EXCEPT !.pc = "close", !.q = FlushContent(state)]>>)
    /\ LET overlap == \E u \in Threads \ {t} :
                          (t = Driver \/ u = Driver) /\ At(u, "set_status", "close")
       IN hist' = [hist EXCEPT !.driver_overlap = @ \/ overlap]
    /\ UNCHANGED <<cfg, nworkers, lsf, state, futures, done_callbacks, lock,
                   pending_dependencies, jobs, callbacks, pool, eng, sub,
                   spawned, cb_calls, cb_done>>

\* self._flush(), second half: leaving the with block closes the file
\* object, which writes its buffer at offset 0 of the file
SetStatus_FlushClose(t) ==
    /\ At(t, "set_status", "close")
    /\ file' = [exists |-> TRUE, content |-> Overwrite(file.content, Top(t).q)]
    /\ stack' = Pop(t)
    /\ UNCHANGED <<cfg, nworkers, lsf, state, futures, done_callbacks, lock,
                   pending_dependencies, jobs, callbacks, pool, eng, sub,
                   spawned, cb_calls, cb_done, hist>>

\* the engine's callback returns
Callback_Return(t) ==
    /\ At(t, "callback", "return")
    /\ cb_done' = [cb_done EXCEPT ![Top(t).job] = @ + 1]
    /\ stack' = Pop(t)
    /\ UNCHANGED <<cfg, nworkers, lsf, file, state, futures, done_callbacks, lock,
                   pending_dependencies, jobs, callbacks, pool, eng, sub,
                   spawned, cb_calls, hist>>

------------------------------------------------------------------------------
(* repack/executor/local.py: LocalExecutor.submit, on the driver thread *)

\* with self.lock: self.futures[job.id] = job_future (a new Future)
Submit_Lock(t) ==
    /\ At(t, "submit", "lock")
    /\ lock = Free
    /\ lock' = t
    /\ futures' = [futures EXCEPT ![Top(t).job] = "PENDING"]
    /\ done_callbacks' = [done_callbacks EXCEPT ![Top(t).job] = <<>>]
    /\ sub' = [pending |-> {}, dependency_failed |-> FALSE]
    /\ stack' = Goto(t, IF Top(t).q = <<>> THEN "decide" ELSE "walk")
    /\ UNCHANGED <<cfg, nworkers, lsf, file, state, pending_dependencies, jobs,
                   callbacks, pool, eng, spawned, cb_calls, cb_done, hist>>

\* one iteration of: for dep_id in dependency_job_ids
Submit_Walk(t) ==
    /\ At(t, "submit", "walk")
    /\ LET dep_id == Head(Top(t).q)
           rest == Tail(Top(t).q)
           next(q) == Replace(t, <<[Top(t) EXCEPT
                          !.q = q, !.pc = IF q = <<>> THEN "decide" ELSE "walk"]>>)
       IN CASE futures[dep_id] = "NONE" ->
                 /\ sub' = sub
                 /\ stack' = next(rest)
            [] futures[dep_id] = "EXCEPTION" ->
                 /\ sub' = [sub EXCEPT !.dependency_failed = TRUE]
                 /\ stack' = next(<<>>)
            [] futures[dep_id] = "RESULT" ->
                 /\ sub' = sub
                 /\ stack' = next(rest)
            [] futures[dep_id] = "PENDING" ->
                 /\ sub' = [sub EXCEPT !.pending = @ \cup {dep_id}]
                 /\ stack' = next(rest)
    /\ UNCHANGED <<cfg, nworkers, lsf, file, state, futures, done_callbacks, lock,
                   pending_dependencies, jobs, callbacks, pool, eng,
                   spawned, cb_calls, cb_done, hist>>

\* if dependency_failed: fail the job, schedule on_complete(job.id, False)
Submit_PreFailed(t) ==
    /\ At(t, "submit", "decide")
    /\ sub.dependency_failed
    /\ futures' = [futures EXCEPT ![Top(t).job] = "EXCEPTION"]
    /\ pool' = IF Top(t).job \in callbacks
               THEN Append(pool, [fn |-> "callback", job |-> Top(t).job])
               ELSE pool
    /\ lock' = Free
    /\ stack' = Replace(t, InvokeFrames(done_callbacks[Top(t).job]))
    /\ UNCHANGED <<cfg, nworkers, lsf, file, state, done_callbacks,
                   pending_dependencies, jobs, callbacks, eng, sub,
                   spawned, cb_calls, cb_done, hist>>

\* if not pending: self.pool.submit(self._run_job, job, job_future)
Submit_Dispatch(t) ==
    /\ At(t, "submit", "decide")
    /\ ~sub.dependency_failed
    /\ sub.pending = {}
    /\ pool' = Append(pool, [fn |-> "_run_job", job |-> Top(t).job])
    /\ lock' = Free
    /\ stack' = Pop(t)
    /\ UNCHANGED <<cfg, nworkers, lsf, file, state, futures, done_callbacks,
                   pending_dependencies, jobs, callbacks, eng, sub,
                   spawned, cb_calls, cb_done, hist>>

\* else: self.pending_dependencies[job.id] = pending
Submit_Dormant(t) ==
    /\ At(t, "submit", "decide")
    /\ ~sub.dependency_failed
    /\ sub.pending # {}
    /\ pending_dependencies' =
           [k \in DOMAIN pending_dependencies \cup {Top(t).job} |->
               IF k = Top(t).job THEN sub.pending ELSE pending_dependencies[k]]
    /\ stack' = Replace(t, <<[Top(t) EXCEPT !.pc = "hooks", !.q = <<>>]>>)
    /\ hist' = [hist EXCEPT !.waited_for[Top(t).job] = sub.pending]
    /\ UNCHANGED <<cfg, nworkers, lsf, file, state, futures, done_callbacks, lock,
                   jobs, callbacks, pool, eng, sub,
                   spawned, cb_calls, cb_done>>

\* one iteration of: for dep_id in pending: add_done_callback(hook).
\* Future.add_done_callback stores the hook while the future is pending and
\* calls it at once, in the calling thread, when the future is already done.
Submit_AddHook(t) ==
    /\ At(t, "submit", "hooks")
    /\ \E dep_id \in sub.pending :
          /\ sub' = [sub EXCEPT !.pending = @ \ {dep_id}]
          /\ IF ~FutureDone(dep_id)
             THEN /\ done_callbacks' = [done_callbacks EXCEPT ![dep_id] =
                                           Append(@, <<Top(t).job, dep_id>>)]
                  /\ stack' = stack
             ELSE /\ done_callbacks' = done_callbacks
                  /\ stack' = [stack EXCEPT ![t] =
                        <<Frame("_on_dependency_complete", "lock",
                                Top(t).job, dep_id, FALSE, "", <<>>)>> \o @]
    /\ UNCHANGED <<cfg, nworkers, lsf, file, state, futures, lock,
                   pending_dependencies, jobs, callbacks, pool, eng,
                   spawned, cb_calls, cb_done, hist>>

\* the end of the with block: release the lock and return job.id
Submit_Return(t) ==
    /\ At(t, "submit", "hooks")
    /\ sub.pending = {}
    /\ lock' = Free
    /\ stack' = Pop(t)
    /\ UNCHANGED <<cfg, nworkers, lsf, file, state, futures, done_callbacks,
                   pending_dependencies, jobs, callbacks, pool, eng, sub,
                   spawned, cb_calls, cb_done, hist>>

------------------------------------------------------------------------------
(* concurrent.futures: Future._invoke_callbacks, in the thread that set the
   future *)

\* call the next done-callback: the hook lambda of submit
InvokeCallbacks_Next(t) ==
    /\ At(t, "invoke_callbacks", "loop")
    /\ LET cb == Head(Top(t).q)
           rest == Tail(Top(t).q)
       IN stack' = Replace(t,
              << Frame("_on_dependency_complete", "lock", cb[1], cb[2], FALSE, "", <<>>) >>
              \o InvokeFrames(rest))
    /\ UNCHANGED <<cfg, nworkers, lsf, file, state, futures, done_callbacks, lock,
                   pending_dependencies, jobs, callbacks, pool, eng, sub,
                   spawned, cb_calls, cb_done, hist>>

------------------------------------------------------------------------------
(* repack/executor/local.py: LocalExecutor._on_dependency_complete *)

\* dep_failed from dep_future.result(), then: with self.lock
Hook_Lock(t) ==
    /\ At(t, "_on_dependency_complete", "lock")
    /\ FutureDone(Top(t).dep)
    /\ lock = Free
    /\ lock' = t
    /\ stack' = Replace(t, <<[Top(t) EXCEPT !.pc = "body",
                                           !.ok = (futures[Top(t).dep] = "RESULT")]>>)
    /\ UNCHANGED <<cfg, nworkers, lsf, file, state, futures, done_callbacks,
                   pending_dependencies, jobs, callbacks, pool, eng, sub,
                   spawned, cb_calls, cb_done, hist>>

\* if self.futures[job_id].done(): return
Hook_AlreadyDone(t) ==
    /\ At(t, "_on_dependency_complete", "body")
    /\ FutureDone(Top(t).job)
    /\ lock' = Free
    /\ stack' = Pop(t)
    /\ UNCHANGED <<cfg, nworkers, lsf, file, state, futures, done_callbacks,
                   pending_dependencies, jobs, callbacks, pool, eng, sub,
                   spawned, cb_calls, cb_done, hist>>

\* if dep_failed: self.futures[job_id].set_exception(...), which sets the
\* future and then invokes the future's done-callbacks in this thread
Hook_Fail(t) ==
    /\ At(t, "_on_dependency_complete", "body")
    /\ ~FutureDone(Top(t).job)
    /\ ~Top(t).ok
    /\ futures' = [futures EXCEPT ![Top(t).job] = "EXCEPTION"]
    /\ stack' = Replace(t, InvokeFrames(done_callbacks[Top(t).job])
                           \o <<[Top(t) EXCEPT !.pc = "notify"]>>)
    /\ UNCHANGED <<cfg, nworkers, lsf, file, state, done_callbacks, lock,
                   pending_dependencies, jobs, callbacks, pool, eng, sub,
                   spawned, cb_calls, cb_done, hist>>

\* after set_exception returned: del pending_dependencies[job_id],
\* self.pool.submit(cb, job_id, False), return
Hook_Notify(t) ==
    /\ At(t, "_on_dependency_complete", "notify")
    /\ pending_dependencies' =
           [k \in DOMAIN pending_dependencies \ {Top(t).job} |-> pending_dependencies[k]]
    /\ pool' = IF Top(t).job \in callbacks
               THEN Append(pool, [fn |-> "callback", job |-> Top(t).job])
               ELSE pool
    /\ lock' = Free
    /\ stack' = Pop(t)
    /\ UNCHANGED <<cfg, nworkers, lsf, file, state, futures, done_callbacks,
                   jobs, callbacks, eng, sub, spawned, cb_calls, cb_done, hist>>

\* Hook_Success with the emptiness test of the pending set left out: the job
\* is dispatched as soon as one dependency has succeeded
Hook_Success_DispatchEarly(t) ==
    /\ At(t, "_on_dependency_complete", "body")
    /\ ~FutureDone(Top(t).job)
    /\ Top(t).ok
    /\ LET job_id == Top(t).job
       IN IF job_id \notin DOMAIN pending_dependencies
          THEN /\ pending_dependencies' = pending_dependencies
               /\ pool' = pool
          ELSE /\ pending_dependencies' =
                      [k \in DOMAIN pending_dependencies \ {job_id} |->
                          pending_dependencies[k]]
               /\ pool' = Append(pool, [fn |-> "_run_job", job |-> job_id])
    /\ lock' = Free
    /\ stack' = Pop(t)
    /\ UNCHANGED <<cfg, nworkers, lsf, file, state, futures, done_callbacks,
                   jobs, callbacks, eng, sub, spawned, cb_calls, cb_done, hist>>

\* Hook_Success that dispatches the job on every dependency that succeeded
Hook_Success_EachDep(t) ==
    /\ At(t, "_on_dependency_complete", "body")
    /\ ~FutureDone(Top(t).job)
    /\ Top(t).ok
    /\ LET job_id == Top(t).job
       IN IF job_id \notin DOMAIN pending_dependencies
          THEN /\ pending_dependencies' = pending_dependencies
               /\ pool' = pool
          ELSE LET deps == pending_dependencies[job_id] \ {Top(t).dep}
               IN /\ pending_dependencies' =
                         IF deps = {}
                         THEN [k \in DOMAIN pending_dependencies \ {job_id} |->
                                  pending_dependencies[k]]
                         ELSE [pending_dependencies EXCEPT ![job_id] = deps]
                  /\ pool' = Append(pool, [fn |-> "_run_job", job |-> job_id])
    /\ lock' = Free
    /\ stack' = Pop(t)
    /\ UNCHANGED <<cfg, nworkers, lsf, file, state, futures, done_callbacks,
                   jobs, callbacks, eng, sub, spawned, cb_calls, cb_done, hist>>

\* the dependency succeeded: remove it from the pending set, and dispatch the
\* job when the set is empty
Hook_Success(t) ==
    /\ At(t, "_on_dependency_complete", "body")
    /\ ~FutureDone(Top(t).job)
    /\ Top(t).ok
    /\ LET job_id == Top(t).job
       IN IF job_id \notin DOMAIN pending_dependencies
          THEN /\ pending_dependencies' = pending_dependencies
               /\ pool' = pool
          ELSE LET deps == pending_dependencies[job_id] \ {Top(t).dep}
               IN IF deps = {}
                  THEN /\ pending_dependencies' =
                              [k \in DOMAIN pending_dependencies \ {job_id} |->
                                  pending_dependencies[k]]
                       /\ pool' = Append(pool, [fn |-> "_run_job", job |-> job_id])
                  ELSE /\ pending_dependencies' =
                              [pending_dependencies EXCEPT ![job_id] = deps]
                       /\ pool' = pool
    /\ lock' = Free
    /\ stack' = Pop(t)
    /\ UNCHANGED <<cfg, nworkers, lsf, file, state, futures, done_callbacks,
                   jobs, callbacks, eng, sub, spawned, cb_calls, cb_done, hist>>

------------------------------------------------------------------------------
(* repack/executor/local.py: the pool's workers, _run_job and wait *)

\* an idle worker of the ThreadPoolExecutor takes the oldest work item; the
\* workers are interchangeable, so the idle worker of least index takes it
Worker_Take(t) ==
    /\ t \in Workers
    /\ stack[t] = <<>>
    /\ \A u \in Workers : u < t => stack[u] # <<>>
    /\ pool # <<>>
    /\ pool' = Tail(pool)
    /\ IF Head(pool).fn = "_run_job"
       THEN /\ stack' = [stack EXCEPT ![t] =
                   <<Frame("_run_job", "spawn", Head(pool).job, "", FALSE, "", <<>>)>>]
            /\ cb_calls' = cb_calls
       ELSE /\ stack' = [stack EXCEPT ![t] = CallbackFrames(Head(pool).job, FALSE)]
            /\ cb_calls' = [cb_calls EXCEPT ![Head(pool).job] = @ + 1]
    /\ UNCHANGED <<cfg, nworkers, lsf, file, state, futures, done_callbacks, lock,
                   pending_dependencies, jobs, callbacks, eng, sub,
                   spawned, cb_done, hist>>

\* the try block: the worker starts executing the job; success is True when
\* the command exits with rc = 0 and False when it exits with another code
\* or makedirs, open or Popen raises
RunJob_Spawn(t) ==
    /\ At(t, "_run_job", "spawn")
    /\ \E success \in BOOLEAN :
          stack' = Replace(t, <<[Top(t) EXCEPT !.pc = "set", !.ok = success]>>)
    /\ spawned' = [spawned EXCEPT ![Top(t).job] = @ + 1]
    /\ UNCHANGED <<cfg, nworkers, lsf, file, state, futures, done_callbacks, lock,
                   pending_dependencies, jobs, callbacks, pool, eng, sub,
                   cb_calls, cb_done, hist>>

\* future.set_result(True) / future.set_exception(...): the future becomes
\* done, then its done-callbacks are invoked in this thread
RunJob_SetFuture(t) ==
    /\ At(t, "_run_job", "set")
    /\ futures[Top(t).job] = "PENDING"
    /\ futures' = [futures EXCEPT ![Top(t).job] =
                      IF Top(t).ok THEN "RESULT" ELSE "EXCEPTION"]
    /\ stack' = Replace(t, InvokeFrames(done_callbacks[Top(t).job])
                           \o <<[Top(t) EXCEPT !.pc = "finally"]>>)
    /\ UNCHANGED <<cfg, nworkers, lsf, file, state, done_callbacks, lock,
                   pending_dependencies, jobs, callbacks, pool, eng, sub,
                   spawned, cb_calls, cb_done, hist>>

\* finally: cb = self.callbacks.get(job.id); if cb: cb(job.id, success)
RunJob_Finally(t) ==
    /\ At(t, "_run_job", "finally")
    /\ IF Top(t).job \in callbacks
       THEN /\ stack' = Replace(t, CallbackFrames(Top(t).job, Top(t).ok))
            /\ cb_calls' = [cb_calls EXCEPT ![Top(t).job] = @ + 1]
            /\ hist' = [hist EXCEPT !.cb_success =
                           IF Top(t).ok THEN @ \cup {Top(t).job} ELSE @]
       ELSE /\ stack' = Pop(t)
            /\ cb_calls' = cb_calls
            /\ hist' = hist
    /\ UNCHANGED <<cfg, nworkers, lsf, file, state, futures, done_callbacks, lock,
                   pending_dependencies, jobs, callbacks, pool, eng, sub,
                   spawned, cb_done>>

\* wait: with self.lock: collect the futures of job_ids
Wait_Lock(t) ==
    /\ At(t, "wait", "lock")
    /\ lock = Free
    /\ stack' = Replace(t, <<[Top(t) EXCEPT !.pc = "block",
            !.q = Filter(eng.sorted_targets,
                         {jid \in eng.submitted_jobs : futures[jid] # "NONE"})]>>)
    /\ UNCHANGED <<cfg, nworkers, lsf, file, state, futures, done_callbacks, lock,
                   pending_dependencies, jobs, callbacks, pool, eng, sub,
                   spawned, cb_calls, cb_done, hist>>

\* concurrent.futures.wait(fs) returns when every future of fs is done
Wait_Return(t) ==
    /\ At(t, "wait", "block")
    /\ \A jid \in Range(Top(t).q) : FutureDone(jid)
    /\ stack' = Pop(t)
    /\ UNCHANGED <<cfg, nworkers, lsf, file, state, futures, done_callbacks, lock,
                   pending_dependencies, jobs, callbacks, pool, eng, sub,
                   spawned, cb_calls, cb_done, hist>>

------------------------------------------------------------------------------

Next ==
    \/ Run_Prepare
    \/ Run_Skip
    \/ Run_Submit
    \/ Run_MarkRunning
    \/ Run_Wait
    \/ \E t \in Threads :
          \/ SetStatus_Write(t)
          \/ SetStatus_Flush(t)
          \/ Callback_Return(t)
          \/ Submit_Lock(t)
          \/ Submit_Walk(t)
          \/ Submit_PreFailed(t)
          \/ Submit_Dispatch(t)
          \/ Submit_Dormant(t)
          \/ Submit_AddHook(t)
          \/ Submit_Return(t)
          \/ InvokeCallbacks_Next(t)
          \/ Hook_Lock(t)
          \/ Hook_AlreadyDone(t)
          \/ Hook_Fail(t)
          \/ Hook_Notify(t)
          \/ Hook_Success(t)
          \/ Worker_Take(t)
          \/ RunJob_Spawn(t)
          \/ RunJob_SetFuture(t)
          \/ RunJob_Finally(t)
          \/ Wait_Lock(t)
          \/ Wait_Return(t)

Spec == Init /\ [][Next]_vars

------------------------------------------------------------------------------
(* The same program with _flush in its two halves, so that the threads
   interleave between the open and the close of the status file.  The status
   file is only written after initialize, never read, so the scheduling is
   that of Spec; the finer steps are run on the fan-in kits. *)

\* the file of a run in which B::p1 passed and B::p2 failed, and A::ALL
\* with it
FileIO ==
    FlushOf(<< <<"A::ALL", "FAIL">>, <<"B::p1", "PASS">>, <<"B::p2", "FAIL">> >>)

\* a first run on one worker, or a rerun on FileIO on any pool
InitIO ==
    \/ Start(FanInCfg, NoFile, 1)
    \/ \E n \in 1..MaxWorkers : Start(FanInCfg, FileIO, n)

NextIO ==
    \/ Run_Prepare
    \/ Run_Skip
    \/ Run_Submit
    \/ Run_MarkRunning
    \/ Run_Wait
    \/ \E t \in Threads :
          \/ SetStatus_Write(t)
          \/ SetStatus_FlushOpen(t)
          \/ SetStatus_FlushClose(t)
          \/ Callback_Return(t)
          \/ Submit_Lock(t)
          \/ Submit_Walk(t)
          \/ Submit_PreFailed(t)
          \/ Submit_Dispatch(t)
          \/ Submit_Dormant(t)
          \/ Submit_AddHook(t)
          \/ Submit_Return(t)
          \/ InvokeCallbacks_Next(t)
          \/ Hook_Lock(t)
          \/ Hook_AlreadyDone(t)
          \/ Hook_Fail(t)
          \/ Hook_Notify(t)
          \/ Hook_Success(t)
          \/ Worker_Take(t)
          \/ RunJob_Spawn(t)
          \/ RunJob_SetFuture(t)
          \/ RunJob_Finally(t)
          \/ Wait_Lock(t)
          \/ Wait_Return(t)

SpecIO == InitIO /\ [][NextIO]_vars

------------------------------------------------------------------------------
(* RepackEngine.run up to its first call of executor.submit, on kit
   registrations of every shape: kit cycles, a kit that depends on itself,
   targets without a PVT, targets with equal ids.
   Up to that call the driver is the only thread. *)

Kits2(depsA, depsB, pvtsA, pvtsB) ==
    Cfg(<<"A", "B">>,
        [k \in {"A", "B"} |-> IF k = "A" THEN depsA ELSE depsB],
        [k \in {"A", "B"} |-> IF k = "A" THEN pvtsA ELSE pvtsB])

\* the PVT lists get_targets builds targets from
PlanPvts ==
    {<<"p1">>, <<"p2">>, <<"p1", "p2">>, <<"p1", "p1">>, <<"ALL">>, <<NoPvt>>,
     <<NoPvt, "ALL">>}

\* A depends on nothing, on B, on itself or on both; B on nothing or on A
PlanConfigs ==
    {Kits2(depsA, depsB, pvtsA, pvtsB) :
        depsA \in {<<>>, <<"B">>, <<"A">>, <<"A", "B">>},
        depsB \in {<<>>, <<"A">>},
        pvtsA \in PlanPvts,
        pvtsB \in PlanPvts}

\* no status file, or the file _flush wrote for the targets with every
\* target PENDING, every target PASS, or PASS for A's targets only
PlanFiles(c) ==
    LET d == Reconcile(<<>>, AllTargets(c))
        File(st) == FlushOf([i \in DOMAIN d |-> <<d[i][1], st[d[i][1]]>>])
    IN {NoFile}
       \cup {File([id \in AllIds(c) |-> s]) : s \in {"PENDING", "PASS"}}
       \cup {File([id \in AllIds(c) |->
                     IF id \in {TargetId(t) : t \in Range(KitTargets(c, "A"))}
                     THEN "PASS" ELSE "PENDING"])}

InitPlan == \E c \in PlanConfigs : \E f \in PlanFiles(c) : Start(c, f, 1)

NextPlan ==
    \/ Run_Prepare
    \/ Run_Skip
    \/ Run_Submit

SpecPlan == InitPlan /\ [][NextPlan]_vars

------------------------------------------------------------------------------
(* The StateManager on its own, called from one thread as tests/test_state.py
   calls it: initialize with and without a clean hook, set_status, a new
   StateManager on the same path, and between the calls the user editing,
   replacing or removing the status file. *)

\* the lists all_targets is drawn from: targets with a PVT, without one, and
\* with a PVT that holds a comma and a quote
SMTargetLists ==
    { <<>>,
      <<KitTarget("A", "p1")>>,
      <<KitTarget("A", "p1"), KitTarget("B", NoPvt)>>,
      <<KitTarget("C", "s,\"t"), KitTarget("A", "p1")>> }

\* the ids set_status is called with
SMIds == {TargetId(KitTarget("A", "p1")), TargetId(KitTarget("C", "s,\"t"))}

Content(s) == [exists |-> TRUE, content |-> s]

\* the files the user leaves at the path: none, an empty one, the rest of a
\* torn write, a file with another header, one that cannot be decoded, a
\* header alone, the files of test_incremental_run_load and
\* test_manual_rerun_trigger, and a file with a short row, a long row, a
\* repeated id and an unknown status
SMFiles ==
    { NoFile,
      Content(""),
      Content("G\r\n"),
      Content("status,id\r\nPASS,A::p1\r\n"),
      Content("id,status\r\nA::p1,PASS\r\n" \o BadByte),
      Content("id,status\n"),
      Content("id,status\nA::p1,PASS\n"),
      Content("id,status\nA::p1,PENDING\n"),
      Content("id,status\r\nA::p1,PASS\r\nB::ALL\r\nB::ALL,RUNNING,x\r\n"
              \o "A::p1,pass\r\n") }

\* what the user leaves at the path between two calls: no file, or the
\* rest of a torn write
SMReplacements == {NoFile, Content("G\r\n")}

\* the file after the user changed the status cell of row k to PENDING
EditRow(f, k) ==
    LET rows == FileRows(f)
    IN Content(WriteRows([i \in DOMAIN rows |->
                            IF i = k THEN <<rows[i][1], "PENDING">> ELSE rows[i]]))

\* a StateManager on the path of the file f, and no call made yet
InitSM ==
    \E f \in SMFiles :
        /\ cfg = FanInCfg
        /\ nworkers = 1
        /\ lsf = NoLsf
        /\ file = f
        /\ state = <<>>
        /\ futures = [id \in AllIds(cfg) |-> "NONE"]
        /\ done_callbacks = [id \in AllIds(cfg) |-> <<>>]
        /\ lock = Free
        /\ pending_dependencies = <<>>
        /\ jobs = {}
        /\ callbacks = {}
        /\ pool = <<>>
        /\ stack = [t \in Threads |-> <<>>]
        /\ eng = [graph_in |-> <<>>, sorted_targets |-> <<>>, i |-> 1,
                  submitted_jobs |-> {}, start_status |-> <<>>,
                  executor |-> "local"]
        /\ sub = [pending |-> {}, dependency_failed |-> FALSE]
        /\ spawned = [id \in AllIds(cfg) |-> 0]
        /\ cb_calls = [id \in AllIds(cfg) |-> 0]
        /\ cb_done = [id \in AllIds(cfg) |-> 0]
        /\ hist = [fresh |-> TRUE, on_disk |-> NotOnDisk, last_init |-> NoInit]

SMUnchanged ==
    UNCHANGED <<cfg, nworkers, lsf, futures, done_callbacks, lock,
                pending_dependencies, jobs, callbacks, pool, stack, eng, sub,
                spawned, cb_calls, cb_done>>

\* StateManager.initialize(all_targets, clean_callback), the whole call:
\* read the file, take the loaded state or call the hook and take {},
\* reconcile, _flush, return is_incremental
SM_Initialize ==
    LET is_incremental == IsIncremental(file)
        branch == IF is_incremental THEN LoadedState(file) ELSE <<>>
    IN \E all_targets \in SMTargetLists, hook \in BOOLEAN :
        LET reconciled == Reconcile(branch, all_targets)
        IN /\ state' = reconciled
           /\ file' = FlushOf(reconciled)
           /\ hist' = [fresh |-> FALSE,
                       on_disk |-> OnDisk(TRUE, reconciled, ""),
                       last_init |->
                           [called |-> TRUE, all_targets |-> all_targets,
                            hook |-> hook,
                            cleaned |-> IF ~is_incremental /\ hook THEN 1 ELSE 0,
                            ret |-> is_incremental,
                            held |-> state # <<>>,
                            fresh |-> hist.fresh,
                            before |-> file,
                            written |-> hist.on_disk]]
           /\ SMUnchanged

\* StateManager.set_status(target_id, status), the whole call, with the
\* statuses the engine and its callbacks write
SM_SetStatus ==
    \E target_id \in SMIds, status \in {"RUNNING", "PASS", "FAIL"} :
        /\ state' = DictSet(state, target_id, status)
        /\ file' = FlushOf(state')
        /\ hist' = [fresh |-> FALSE, on_disk |-> OnDisk(TRUE, state', ""),
                    last_init |-> NoInit]
        /\ SMUnchanged

\* StateManager(status_file_path): a new manager on the same path
SM_New ==
    /\ ~hist.fresh
    /\ state' = <<>>
    /\ hist' = [hist EXCEPT !.fresh = TRUE, !.last_init = NoInit]
    /\ file' = file
    /\ SMUnchanged

\* the user flips a PASS row of the status file to PENDING
SM_UserEdit ==
    /\ hist.on_disk.by_sm
    /\ LET rows == FileRows(file)
       IN \E k \in DOMAIN rows :
             /\ k > 1
             /\ rows[k][2] = "PASS"
             /\ file' = EditRow(file, k)
             /\ hist' = [hist EXCEPT !.on_disk = OnDisk(FALSE, <<>>, rows[k][1]),
                                     !.last_init = NoInit]
    /\ state' = state
    /\ SMUnchanged

\* the user removes the status file or puts another file in its place
SM_Replace ==
    /\ \E f \in SMReplacements :
          /\ f # file
          /\ file' = f
    /\ hist' = [hist EXCEPT !.on_disk = NotOnDisk, !.last_init = NoInit]
    /\ state' = state
    /\ SMUnchanged

NextSM ==
    \/ SM_Initialize
    \/ SM_SetStatus
    \/ SM_New
    \/ SM_UserEdit
    \/ SM_Replace

SpecSM == InitSM /\ [][NextSM]_vars

------------------------------------------------------------------------------
(* repack/executor/lsf.py: LSFExecutor, and the cluster it submits to.  The
   executor has one thread, the caller's: callbacks run inside wait. *)

\* the job ids the cluster hands out, in this order
LsfIds == <<"101", "102", "103">>

\* what bsub prints for the job it accepted: the message of LSF, or the
\* message of a site wrapper
BsubOutputs(n) ==
    {"Job <" \o n \o "> is submitted to queue <normal>.\n",
     "Submitted job " \o n \o " <normal>\n"}

Digits == {"0", "1", "2", "3", "4", "5", "6", "7", "8", "9"}

\* re.search(r"Job <(\d+)>", output): the digits of the first match, ""
\* when there is none
ParseJobId(output) ==
    LET closes(p) == {e \in (p + 6)..Len(output) :
                         /\ CharAt(output, e) = ">"
                         /\ \A k \in (p + 5)..(e - 1) : CharAt(output, k) \in Digits}
        starts == {p \in 1..(Len(output) - 6) :
                      SubSeq(output, p, p + 4) = "Job <" /\ closes(p) # {}}
    IN IF starts = {} THEN ""
       ELSE LET p == CHOOSE q \in starts : \A r \in starts : q <= r
                e == CHOOSE q \in closes(p) : \A r \in closes(p) : q <= r
            IN SubSeq(output, p + 5, e - 1)

RECURSIVE LsfDeps(_, _)
\* lsf_deps: the backend ids recorded for the dependency ids, those without
\* one left out
LsfDeps(dependency_job_ids, target_to_lsf) ==
    IF dependency_job_ids = <<>> THEN <<>>
    ELSE LET lsf_id == DictGet(target_to_lsf, Head(dependency_job_ids), "")
         IN (IF lsf_id # "" THEN <<lsf_id>> ELSE <<>>)
            \o LsfDeps(Tail(dependency_job_ids), target_to_lsf)

RECURSIVE JoinWith(_, _)
\* sep.join(strs)
JoinWith(sep, strs) ==
    IF strs = <<>> THEN ""
    ELSE IF Len(strs) = 1 THEN Head(strs)
    ELSE Head(strs) \o sep \o JoinWith(sep, Tail(strs))

\* JoinExpr that joins the conditions with ||
JoinExpr_Or(lsf_deps) ==
    JoinWith(" || ", [i \in DOMAIN lsf_deps |-> "done(" \o lsf_deps[i] \o ")"])

\* " && ".join(f"done({jid})" for jid in lsf_deps)
JoinExpr(lsf_deps) ==
    JoinWith(" && ", [i \in DOMAIN lsf_deps |-> "done(" \o lsf_deps[i] \o ")"])

\* the arguments of a bsub call: the job name (-J), whether -w is passed,
\* and its expression; with them the dependency list of the submit call and
\* the backend ids recorded when it was made
BsubArgs(job_id, dependency_job_ids, target_to_lsf) ==
    LET lsf_deps == LsfDeps(dependency_job_ids, target_to_lsf)
    IN [name |-> job_id,
        has_w |-> lsf_deps # <<>>,
        w |-> IF lsf_deps # <<>> THEN JoinExpr(lsf_deps) ELSE "",
        deps |-> dependency_job_ids,
        recorded |-> target_to_lsf]

\* the cluster reads a dependency expression: the job ids between the
\* brackets of its done(...) conditions
ExprIds(w) ==
    LET opens == Positions(w, {"("})
        close(i) == NextAt(Positions(w, {")"}), i)
    IN {SubSeq(w, i + 1, close(i) - 1) : i \in opens}

\* the state the cluster holds for the job id n, "" when it has no such job
BackendStat(n) ==
    IF \E k \in DOMAIN lsf.backend : lsf.backend[k].id = n
    THEN lsf.backend[CHOOSE k \in DOMAIN lsf.backend : lsf.backend[k].id = n].stat
    ELSE ""

\* the cluster evaluates a dependency expression of done(...) conditions
\* joined by && or by ||
ExprHolds(w) ==
    IF Positions(w, {"|"}) # {}
    THEN \E n \in ExprIds(w) : BackendStat(n) = "DONE"
    ELSE \A n \in ExprIds(w) : BackendStat(n) = "DONE"

\* the expression can no longer hold: a job it needs has ended in EXIT
ExprFailed(w) ==
    IF Positions(w, {"|"}) # {}
    THEN \A n \in ExprIds(w) : BackendStat(n) = "EXIT"
    ELSE \E n \in ExprIds(w) : BackendStat(n) = "EXIT"

\* an exception leaves the call: the frames of the thread are unwound down
\* to its first frame, which ends raising
Raise(t) ==
    [stack EXCEPT ![t] = <<[stack[t][Len(stack[t])] EXCEPT !.pc = "raised"]>>]

LsfUnchanged ==
    UNCHANGED <<cfg, nworkers, futures, done_callbacks, lock,
                pending_dependencies, jobs, callbacks, pool, sub, spawned>>

\* LSFExecutor.submit, the whole call, when bsub accepts the job: the
\* cluster queues it and bsub prints a message; the job id parsed from it
\* is recorded, and the callback, unless the message cannot be parsed, and
\* then _execute_bsub raises
Lsf_Submit(t) ==
    /\ At(t, "lsf_submit", "bsub")
    /\ Len(lsf.backend) < Len(LsfIds)
    /\ LET job_id == Top(t).job
           args == BsubArgs(job_id, Top(t).q, lsf.target_to_lsf)
           n == LsfIds[Len(lsf.backend) + 1]
           queued == Append(lsf.backend,
                            [id |-> n, name |-> job_id, has_w |-> args.has_w,
                             w |-> args.w, stat |-> "PEND"])
       IN \E output \in BsubOutputs(n) :
             LET lsf_job_id == ParseJobId(output)
             IN IF lsf_job_id # ""
                THEN /\ lsf' = [lsf EXCEPT
                                  !.backend = queued,
                                  !.bsub = Append(@, args),
                                  !.target_to_lsf = DictSet(@, job_id, lsf_job_id),
                                  !.callbacks = IF Top(t).ok THEN @ \cup {job_id} ELSE @]
                     /\ stack' = Pop(t)
                ELSE /\ lsf' = [lsf EXCEPT !.backend = queued,
                                           !.bsub = Append(@, args)]
                     /\ stack' = Raise(t)
    /\ UNCHANGED <<file, state, eng, cb_calls, cb_done, hist>>
    /\ LsfUnchanged

\* LSFExecutor.submit when bsub exits with an error: the cluster does not
\* take the job, check_output raises CalledProcessError and _execute_bsub
\* raises
Lsf_SubmitRejected(t) ==
    /\ At(t, "lsf_submit", "bsub")
    /\ lsf' = [lsf EXCEPT !.bsub = Append(@, BsubArgs(Top(t).job, Top(t).q,
                                                      lsf.target_to_lsf))]
    /\ stack' = Raise(t)
    /\ UNCHANGED <<file, state, eng, cb_calls, cb_done, hist>>
    /\ LsfUnchanged

\* the callback an LSFExecutor was given for the job, called: the engine's
\* (_make_on_complete) when the thread is inside run, else the caller's,
\* which only takes note
OnComplete(t, tid, success) ==
    IF stack[t][Len(stack[t])].fn = "run"
    THEN CallbackFrames(tid, success)
    ELSE <<Frame("callback", "return", tid, "", success, "", <<>>)>>

\* LSFExecutor.wait is entered: pending_jobs = set(job_ids)
Lsf_WaitEnter(t) ==
    /\ At(t, "lsf_wait", "enter")
    /\ lsf' = [lsf EXCEPT !.wait_calls =
                  Append(@, [ids |-> Range(Top(t).q), returned |-> FALSE])]
    /\ stack' = Goto(t, "poll")
    /\ UNCHANGED <<file, state, eng, cb_calls, cb_done, hist>>
    /\ LsfUnchanged

\* LSFExecutor.wait, one pending id of one pass of the polling loop: an id
\* without a backend id is taken for done; else _get_lsf_status asks bjobs,
\* which prints the state of the job or fails (UNKNOWN); on DONE and on
\* EXIT the callback is called and the id is done
Lsf_WaitPoll(t) ==
    /\ At(t, "lsf_wait", "poll")
    /\ \E tid \in Range(Top(t).q) :
          LET lsf_id == DictGet(lsf.target_to_lsf, tid, "")
              rest == Filter(Top(t).q, Range(Top(t).q) \ {tid})
              polled == <<[Top(t) EXCEPT !.q = rest]>>
          IN IF lsf_id = ""
             THEN /\ stack' = Replace(t, polled)
                  /\ UNCHANGED <<lsf, cb_calls, hist>>
             ELSE \E status \in {BackendStat(lsf_id), "UNKNOWN"} :
                     /\ status \in {"DONE", "EXIT"}
                     /\ lsf' = [lsf EXCEPT !.reports = @ \cup
                                  {[wait |-> Len(lsf.wait_calls), tid |-> tid,
                                    status |-> status,
                                    called |-> tid \in lsf.callbacks]}]
                     /\ IF tid \in lsf.callbacks
                        THEN /\ stack' = Replace(t, OnComplete(t, tid, status = "DONE")
                                                    \o polled)
                             /\ cb_calls' = [cb_calls EXCEPT ![tid] = @ + 1]
                             /\ hist' = [hist EXCEPT !.cb_success =
                                            IF status = "DONE" THEN @ \cup {tid} ELSE @]
                        ELSE /\ stack' = Replace(t, polled)
                             /\ UNCHANGED <<cb_calls, hist>>
    /\ UNCHANGED <<file, state, eng, cb_done>>
    /\ LsfUnchanged

\* LSFExecutor.wait: the pending set is empty, the loop ends
Lsf_WaitReturn(t) ==
    /\ At(t, "lsf_wait", "poll")
    /\ Top(t).q = <<>>
    /\ lsf' = [lsf EXCEPT !.wait_calls[Len(lsf.wait_calls)].returned = TRUE]
    /\ stack' = Pop(t)
    /\ UNCHANGED <<file, state, eng, cb_calls, cb_done, hist>>
    /\ LsfUnchanged

\* the cluster starts a pending job: it has no dependency expression, or
\* every job of its done(...) conditions is DONE
Backend_Start(k) ==
    /\ k \in DOMAIN lsf.backend
    /\ lsf.backend[k].stat = "PEND"
    /\ lsf.backend[k].has_w => ExprHolds(lsf.backend[k].w)
    /\ lsf' = [lsf EXCEPT !.backend[k].stat = "RUN"]
    /\ UNCHANGED <<file, state, stack, eng, cb_calls, cb_done, hist>>
    /\ LsfUnchanged

\* a running job ends: DONE on exit code 0, EXIT otherwise
Backend_End(k) ==
    /\ k \in DOMAIN lsf.backend
    /\ lsf.backend[k].stat = "RUN"
    /\ \E stat \in {"DONE", "EXIT"} : lsf' = [lsf EXCEPT !.backend[k].stat = stat]
    /\ UNCHANGED <<file, state, stack, eng, cb_calls, cb_done, hist>>
    /\ LsfUnchanged

\* the cluster gives up a pending job whose dependency can no longer be
\* met, a job of its conditions having ended in EXIT: the job becomes EXIT
\* without having run
Backend_Abort(k) ==
    /\ k \in DOMAIN lsf.backend
    /\ lsf.backend[k].stat = "PEND"
    /\ lsf.backend[k].has_w
    /\ ExprFailed(lsf.backend[k].w)
    /\ lsf' = [lsf EXCEPT !.backend[k].stat = "EXIT"]
    /\ UNCHANGED <<file, state, stack, eng, cb_calls, cb_done, hist>>
    /\ LsfUnchanged

------------------------------------------------------------------------------
(* RepackEngine.run with an LSFExecutor *)

\* no status file, or the file of an earlier run that left the first
\* target FAIL and the last PASS
LsfFiles(c) ==
    LET ts == AllTargets(c)
    IN {NoFile,
        FlushOf([i \in DOMAIN ts |->
                    <<TargetId(ts[i]),
                      IF i = 1 THEN "FAIL" ELSE IF i = Len(ts) THEN "PASS"
                      ELSE "PENDING">>])}

InitLSF == \E c \in KitConfigs : \E f \in LsfFiles(c) : StartWith(c, f, 1, "lsf")

NextLSF ==
    \/ Run_Prepare
    \/ Run_Skip
    \/ Run_Submit
    \/ Run_MarkRunning
    \/ Run_Wait
    \/ SetStatus_Write(Driver)
    \/ SetStatus_Flush(Driver)
    \/ Callback_Return(Driver)
    \/ Lsf_Submit(Driver)
    \/ Lsf_SubmitRejected(Driver)
    \/ Lsf_WaitEnter(Driver)
    \/ Lsf_WaitPoll(Driver)
    \/ Lsf_WaitReturn(Driver)
    \/ \E k \in DOMAIN LsfIds :
          \/ Backend_Start(k)
          \/ Backend_End(k)
          \/ Backend_Abort(k)

SpecLSF == InitLSF /\ [][NextLSF]_vars

------------------------------------------------------------------------------
(* An LSFExecutor called by a program of its own: submit and wait in any
   order, with any dependency lists *)

\* the number of wait calls the program makes at most
MaxWaits == 2

\* the jobs of the program, in the order it submits them
ClientIds == SortedTargets(FanInCfg)

\* the dependency lists the program passes with its k-th job: with the
\* first none, or the second job (an id not submitted yet); with the second
\* none, or the first job; with the third the second job, or both others
ClientDeps(k) ==
    IF k = 1 THEN {<<>>, <<ClientIds[2]>>}
    ELSE IF k = 2 THEN {<<>>, <<ClientIds[1]>>}
    ELSE {<<ClientIds[2]>>, <<ClientIds[1], ClientIds[2]>>}

\* the id lists the program waits for: its first job, or all its jobs
ClientWaits == {<<ClientIds[1]>>, ClientIds}

InitClient ==
    /\ cfg = FanInCfg
    /\ nworkers = 1
    /\ lsf = NoLsf
    /\ file = NoFile
    /\ state = <<>>
    /\ futures = [id \in AllIds(cfg) |-> "NONE"]
    /\ done_callbacks = [id \in AllIds(cfg) |-> <<>>]
    /\ lock = Free
    /\ pending_dependencies = <<>>
    /\ jobs = {}
    /\ callbacks = {}
    /\ pool = <<>>
    /\ stack = [t \in Threads |->
                  IF t = Driver
                  THEN <<Frame("client", "idle", "", "", FALSE, "", <<>>)>>
                  ELSE <<>>]
    /\ eng = [graph_in |-> <<>>, sorted_targets |-> <<>>, i |-> 1,
              submitted_jobs |-> {}, start_status |-> <<>>,
              executor |-> "lsf"]
    /\ sub = [pending |-> {}, dependency_failed |-> FALSE]
    /\ spawned = [id \in AllIds(cfg) |-> 0]
    /\ cb_calls = [id \in AllIds(cfg) |-> 0]
    /\ cb_done = [id \in AllIds(cfg) |-> 0]
    /\ hist = [cb_success |-> {}]

\* the program calls executor.submit(job, dependency_job_ids, on_complete)
Client_Submit ==
    /\ At(Driver, "client", "idle")
    /\ Len(lsf.bsub) < Len(ClientIds)
    /\ LET k == Len(lsf.bsub) + 1
       IN \E dependency_job_ids \in ClientDeps(k) :
             stack' = Replace(Driver,
                 << Frame("lsf_submit", "bsub", ClientIds[k], "", TRUE, "",
                          dependency_job_ids),
                    Top(Driver) >>)
    /\ UNCHANGED <<lsf, file, state, eng, cb_calls, cb_done, hist>>
    /\ LsfUnchanged

\* the program calls executor.wait(job_ids)
Client_Wait ==
    /\ At(Driver, "client", "idle")
    /\ Len(lsf.wait_calls) < MaxWaits
    /\ \E job_ids \in ClientWaits :
          stack' = Replace(Driver,
              << Frame("lsf_wait", "enter", "", "", FALSE, "", job_ids),
                 Top(Driver) >>)
    /\ UNCHANGED <<lsf, file, state, eng, cb_calls, cb_done, hist>>
    /\ LsfUnchanged

\* the program catches the exception of a submit and goes on
Client_Catch ==
    /\ At(Driver, "client", "raised")
    /\ stack' = Goto(Driver, "idle")
    /\ UNCHANGED <<lsf, file, state, eng, cb_calls, cb_done, hist>>
    /\ LsfUnchanged

NextClient ==
    \/ Client_Submit
    \/ Client_Wait
    \/ Client_Catch
    \/ Callback_Return(Driver)
    \/ Lsf_Submit(Driver)
    \/ Lsf_SubmitRejected(Driver)
    \/ Lsf_WaitEnter(Driver)
    \/ Lsf_WaitPoll(Driver)
    \/ Lsf_WaitReturn(Driver)
    \/ \E k \in DOMAIN LsfIds :
          \/ Backend_Start(k)
          \/ Backend_End(k)
          \/ Backend_Abort(k)

SpecClient == InitClient /\ [][NextClient]_vars

------------------------------------------------------------------------------
(* A LocalExecutor called by a program of its own, which passes dependency
   ids it never submits *)

\* the ids of the program: three jobs, and Unknown, which it only names as
\* a dependency
LocalCfg ==
    Cfg(<<"A", "B">>,
        [k \in {"A", "B"} |-> IF k = "A" THEN <<"B">> ELSE <<>>],
        [k \in {"A", "B"} |-> IF k = "A" THEN <<"ALL">> ELSE <<"p1", "p2", "p3">>])

Unknown == "B::p3"

\* the jobs in the order the program submits them
LocalIds == <<"B::p1", "B::p2", "A::ALL">>

\* the dependency lists the program passes with its k-th job
LocalDeps(k) ==
    IF k = 1 THEN {<<>>, <<Unknown>>}
    ELSE IF k = 2 THEN {<<Unknown>>, <<Unknown, LocalIds[1]>>}
    ELSE {<<LocalIds[2], Unknown>>, <<LocalIds[1], Unknown, LocalIds[2]>>}

InitLocal ==
    \E n \in 1..MaxWorkers :
        StartAs(LocalCfg, NoFile, n, "local",
                Frame("client", "idle", "", "", FALSE, "", <<>>))

\* the program calls executor.submit(job, dependency_job_ids, on_complete):
\* submit first records the job and its callback
Local_Submit ==
    /\ At(Driver, "client", "idle")
    /\ \E k \in DOMAIN LocalIds :
          /\ futures[LocalIds[k]] = "NONE"
          /\ \A i \in 1..(k - 1) : futures[LocalIds[i]] # "NONE"
          /\ \E dependency_job_ids \in LocalDeps(k) :
                /\ stack' = Replace(Driver,
                       << Frame("submit", "lock", LocalIds[k], "", FALSE, "",
                                dependency_job_ids),
                          Top(Driver) >>)
                /\ hist' = [hist EXCEPT
                              !.declared[LocalIds[k]] = Range(dependency_job_ids),
                              !.submit_calls[LocalIds[k]] = @ + 1]
          /\ jobs' = jobs \cup {LocalIds[k]}
          /\ callbacks' = callbacks \cup {LocalIds[k]}
    /\ UNCHANGED <<cfg, nworkers, lsf, file, state, futures, done_callbacks, lock,
                   pending_dependencies, pool, eng, sub,
                   spawned, cb_calls, cb_done>>

NextLocal ==
    \/ Local_Submit
    \/ \E t \in Threads :
          \/ SetStatus_Write(t)
          \/ SetStatus_Flush(t)
          \/ Callback_Return(t)
          \/ Submit_Lock(t)
          \/ Submit_Walk(t)
          \/ Submit_PreFailed(t)
          \/ Submit_Dispatch(t)
          \/ Submit_Dormant(t)
          \/ Submit_AddHook(t)
          \/ Submit_Return(t)
          \/ InvokeCallbacks_Next(t)
          \/ Hook_Lock(t)
          \/ Hook_AlreadyDone(t)
          \/ Hook_Fail(t)
          \/ Hook_Notify(t)
          \/ Hook_Success(t)
          \/ Worker_Take(t)
          \/ RunJob_Spawn(t)
          \/ RunJob_SetFuture(t)
          \/ RunJob_Finally(t)

SpecLocal == InitLocal /\ [][NextLocal]_vars

------------------------------------------------------------------------------
(* Vocabulary of the properties *)

\* thread t has a step it can take (the guards of the actions, by frame)
CanStep(t) ==
    IF stack[t] = <<>>
    THEN /\ t \in Workers
         /\ pool # <<>>
         /\ \A u \in Workers : u < t => stack[u] # <<>>
    ELSE LET f == Top(t)
         IN CASE f.fn = "run" -> f.pc \notin {"done", "raised"}
              [] f.fn = "submit" -> f.pc # "lock" \/ lock = Free
              [] f.fn = "_on_dependency_complete" ->
                    f.pc # "lock" \/ (lock = Free /\ FutureDone(f.dep))
              [] f.fn = "_run_job" -> f.pc # "set" \/ futures[f.job] = "PENDING"
              [] f.fn = "wait" ->
                    IF f.pc = "lock" THEN lock = Free
                    ELSE \A jid \in Range(f.q) : FutureDone(jid)
              [] OTHER -> TRUE

\* no thread can take a step: the run has ended, or is stuck for ever
Stopped == \A t \in Threads : ~CanStep(t)

\* Stopped states have no successor: no step of Next starts in one (TLC
\* finds this action property to hold of Spec), so whatever has not
\* happened in a Stopped state never happens
StoppedIsFinal == [][~Stopped]_vars

\* RepackEngine.run has returned
RunReturned == At(Driver, "run", "done")

\* thread t is inside a call of fn
Inside(t, fn) == \E k \in DOMAIN stack[t] : stack[t][k].fn = fn

\* the job was handed to executor.submit in this run
Submitted(id) == futures[id] # "NONE"

\* the direct predecessors of id in the derived graph (graph_in of run)
\* that are submitted
InFlightPredecessors(id) == {d \in Range(eng.graph_in[id]) : Submitted(d)}

\* no thread is inside StateManager.set_status
NoSetStatusInProgress == \A t \in Threads : ~Inside(t, "set_status")

\* the status the next engine.run on the same status file starts with:
\* what StateManager.initialize makes of the file as it is now
NextRunStatus(id) == GetStatus(InitializeState(file, AllTargets(cfg)), id)

------------------------------------------------------------------------------
(* Properties *)

\* C1: after RepackEngine.run has returned, every target the kits produced
\* is PASS or FAIL in the StateManager; none is PENDING or RUNNING.
C1_AllTerminalAfterRun ==
    RunReturned =>
        \A id \in AllIds(cfg) : GetStatus(state, id) \in {"PASS", "FAIL"}

\* C2: a job with a declared dependency that failed is never executed, and
\* once every submit has returned and the executor has come to rest its
\* callback has fired, with success = False; this holds along chains of
\* dependent jobs.
C2_FailedDependencyFailsJob ==
    \A j \in AllIds(cfg) :
        (\E d \in hist.declared[j] : futures[d] = "EXCEPTION") =>
            /\ spawned[j] = 0
            /\ (Stopped /\ ~Inside(Driver, "submit")) =>
                   (cb_calls[j] >= 1 /\ j \notin hist.cb_success)

\* C3: a submitted target does not start executing before every direct
\* predecessor of the derived graph that was submitted in this run is
\* terminal (its future is done).
C3_StartsAfterPredecessors ==
    \A j \in AllIds(cfg) :
        spawned[j] > 0 => \A d \in InFlightPredecessors(j) : FutureDone(d)

\* C3 witness: a target with a submitted predecessor has started executing
C3_Witness ==
    \E j \in AllIds(cfg) : spawned[j] > 0 /\ InFlightPredecessors(j) # {}

\* C4: when executor.wait(submitted_jobs) has returned, the on_complete
\* callback of every listed job has been invoked and has returned.
C4_WaitImpliesCallbacksDone ==
    RunReturned => \A j \in eng.submitted_jobs : cb_done[j] >= 1

\* C5: LocalExecutor.submit never blocks: the driver never comes to rest
\* inside submit.
C5_SubmitReturns ==
    ~(Stopped /\ Inside(Driver, "submit"))

\* C6: RepackEngine.run returns even when jobs fail: once the engine has
\* called executor.wait, the run never comes to rest before wait returned,
\* with a thread still inside a dependency hook or a submitted job not
\* terminal.
C6_RunReturnsDespiteFailures ==
    (Stopped /\ (Inside(Driver, "wait") \/ RunReturned)) =>
        /\ RunReturned
        /\ \A t \in Threads : ~Inside(t, "_on_dependency_complete")
        /\ \A j \in eng.submitted_jobs : FutureDone(j)

\* C7: the on_complete callback of a submitted job is invoked exactly once:
\* never twice, and once when the job is terminal and the executor has come
\* to rest.
C7_CallbackExactlyOnce ==
    \A j \in AllIds(cfg) :
        /\ cb_calls[j] <= 1
        /\ (Stopped /\ FutureDone(j)) => cb_calls[j] = 1

\* C8: a submitted job with no declared dependency, or whose declared
\* dependencies all succeeded, has been executed when the executor comes to
\* rest.
C8_ReadyJobIsExecuted ==
    \A j \in eng.submitted_jobs :
        (Stopped /\ \A d \in hist.declared[j] : futures[d] = "RESULT") =>
            spawned[j] >= 1

\* C9: for every submitted target, RUNNING is written to the StateManager
\* before executor.submit is called for it.
C9_RunningWrittenBeforeSubmit ==
    hist.submit_before_running = {}

\* C10: once the completion callback has written PASS or FAIL for a target,
\* the target's status is never changed again in the run.
C10_TerminalStatusIsFinal ==
    [][\A id \in hist.cb_written : GetStatus(state', id) = GetStatus(state, id)]_vars

\* C11: from the moment a job has succeeded and its callback has written
\* PASS and returned, the status file is such that a next engine.run reads
\* the target as PASS (and so does not submit it), wherever the driver stops.
C11_PassSurvivesCrash ==
    \A j \in AllIds(cfg) :
        (j \in hist.cb_success /\ cb_done[j] >= 1) => NextRunStatus(j) = "PASS"

\* the dispatch loop of engine.run has ended (the driver has called wait)
DispatchEnded == Inside(Driver, "wait") \/ RunReturned

\* the targets that are PASS when the run starts (after initialize)
PassAtStart == {id \in AllIds(cfg) : GetStatus(eng.start_status, id) = "PASS"}

\* C12: no target that is PASS after initialize is handed to executor.submit
\* in the run.
C12_PassNeverSubmitted ==
    \A id \in AllIds(cfg) : hist.submit_calls[id] > 0 => id \notin PassAtStart

\* C12 witness: a run that started with a PASS target and a target to run
\* has returned
C12_Witness ==
    RunReturned /\ PassAtStart # {} /\ jobs # {}

\* C13: no target is submitted twice, and when the dispatch loop has ended
\* the submitted targets are exactly the targets that were not PASS at run
\* start (none when all were PASS).
C13_SubmittedAreTheNonPass ==
    /\ \A id \in AllIds(cfg) : hist.submit_calls[id] <= 1
    /\ DispatchEnded =>
          {id \in AllIds(cfg) : hist.submit_calls[id] = 1} = AllIds(cfg) \ PassAtStart

\* C13 witness: the loop ended on a run that started with a PASS target, a
\* FAIL or RUNNING target, and so submitted some but not all targets
C13_Witness ==
    /\ DispatchEnded
    /\ PassAtStart # {}
    /\ \E id \in AllIds(cfg) :
          GetStatus(eng.start_status, id) \in {"FAIL", "RUNNING"} /\ id \in jobs

\* C13 witness: the loop ended on a run that started with every target PASS
C13_WitnessAllPass ==
    DispatchEnded /\ PassAtStart = AllIds(cfg) /\ jobs = {}

\* kit k declares a dependency on the registered kit d
KitDependsOn(c, k, d) == d \in Range(c.deps[k]) /\ d \in KitNames(c)

RECURSIVE KitReach(_, _, _)
\* the pairs <<k, d>> with a dependency path from k to d of at most n + 1
\* declarations, from the pairs R
KitReach(c, R, n) ==
    IF n = 0 THEN R
    ELSE KitReach(c,
                  R \cup {<<k, d>> \in KitNames(c) \X KitNames(c) :
                             \E m \in KitNames(c) : <<k, m>> \in R /\ <<m, d>> \in R},
                  n - 1)

\* the kit-dependency graph has a cycle
KitCycle(c) ==
    LET direct == {<<k, d>> \in KitNames(c) \X KitNames(c) : KitDependsOn(c, k, d)}
    IN \E k \in KitNames(c) : <<k, k>> \in KitReach(c, direct, Cardinality(KitNames(c)))

\* executor.submit has been called in this run
SomeSubmit == \E id \in AllIds(cfg) : hist.submit_calls[id] > 0

\* engine.run has got past its checks without raising
PastChecks == ~At(Driver, "run", "start") /\ ~At(Driver, "run", "raised")

\* every target of the registration was built with a PVT string
AllWithPvt(c) == \A t \in Range(AllTargets(c)) : t.pvt # NoPvt

\* two targets of the run have the same id
DuplicateIds(c) ==
    \E i, j \in DOMAIN AllTargets(c) :
        i # j /\ TargetId(AllTargets(c)[i]) = TargetId(AllTargets(c)[j])

\* C14: when the kit-dependency graph has a cycle (a kit that depends on
\* itself included), engine.run raises and never calls executor.submit,
\* whatever the PVTs of the targets (stated for targets with distinct ids
\* that were built with a PVT string; equal ids are the matter of C15,
\* targets built without a PVT that of C17).
C14_KitCycleRaises ==
    (KitCycle(cfg) /\ AllWithPvt(cfg) /\ ~DuplicateIds(cfg)) =>
        ~PastChecks /\ ~SomeSubmit

\* C15: when two targets of the run have the same identity string,
\* engine.run fails before any call of executor.submit.
C15_DuplicateIdsRejected ==
    DuplicateIds(cfg) => ~PastChecks /\ ~SomeSubmit

\* C16: the dependency list handed to executor.submit for a target is
\* exactly the set of its direct predecessors in the derived graph for which
\* submit was called earlier in the run; no predecessor that was PASS at
\* run start is in it.
C16_ResidualDeps ==
    \A tid \in AllIds(cfg) :
        hist.submit_calls[tid] > 0 =>
            /\ hist.declared[tid] =
                   {d \in Range(eng.graph_in[tid]) : d \in hist.earlier[tid]}
            /\ hist.declared[tid] \cap PassAtStart = {}

\* C16 witness: a target was submitted with one predecessor declared and
\* another, PASS at run start, left out
C16_Witness ==
    \E tid \in AllIds(cfg) :
        /\ hist.submit_calls[tid] > 0
        /\ hist.declared[tid] # {}
        /\ Range(eng.graph_in[tid]) \cap PassAtStart # {}

\* C16 witness: a target all of whose predecessors were PASS at run start
\* was submitted with an empty list
C16_WitnessEmpty ==
    \E tid \in AllIds(cfg) :
        /\ hist.submit_calls[tid] > 0
        /\ hist.declared[tid] = {}
        /\ Range(eng.graph_in[tid]) # {}
        /\ Range(eng.graph_in[tid]) \subseteq PassAtStart

\* C19: a job that was submitted while a dependency was in flight (and so
\* waited for it) starts executing only after the on_complete callback of
\* that dependency has returned.
C19_StartsAfterDepCallback ==
    \A j \in AllIds(cfg) :
        spawned[j] > 0 => \A d \in hist.waited_for[j] : cb_done[d] >= 1

\* C18: set_status calls of different completion callbacks may overlap;
\* once all calls have returned, the map holds the last value written for
\* every id, the status file loads to the same values, and the file is a
\* well-formed CSV (header first, two cells in every row).  Stated for runs
\* in which no _flush of the driver overlapped a _flush of a callback.
C18_ConcurrentSetStatusSafe ==
    (NoSetStatusInProgress /\ ~hist.driver_overlap) =>
        /\ \A id \in AllIds(cfg) :
              hist.last_value[id] # "" =>
                  /\ GetStatus(state, id) = hist.last_value[id]
                  /\ IsIncremental(file)
                  /\ GetStatus(LoadedState(file), id) = hist.last_value[id]
        /\ \A k \in DOMAIN FileRows(file) : Len(FileRows(file)[k]) = 2

\* C20: whenever no initialize or set_status call is in progress (each one
\* made has returned), the rows of the status file are exactly the entries
\* of the in-memory map: same ids, same statuses, same order.
C20_WriteThrough ==
    (NoSetStatusInProgress /\ ~At(Driver, "run", "start")) =>
        /\ file.exists
        /\ FileRows(file) = <<FileHeader>> \o state

\* the identity of the target is <kit>::ALL
IsAll(t) == TargetId(t) = t.kit_name \o "::ALL"

\* dt is a predecessor of t in the graph engine.run derived
Linked(dt, t) == TargetId(dt) \in Range(eng.graph_in[TargetId(t)])

\* C17: once the graph is derived, for every kit K that declares a
\* dependency on a kit D: a target of D with identity D::ALL is a
\* predecessor of every target of K, a target K::ALL has every target of D
\* as predecessor, and two PVT-scoped targets are linked iff their PVTs are
\* equal.
C17_EdgeDerivation ==
    ~At(Driver, "run", "start") =>
        \A k, d \in KitNames(cfg) :
            KitDependsOn(cfg, k, d) =>
                \A t \in Range(KitTargets(cfg, k)), dt \in Range(KitTargets(cfg, d)) :
                    IF IsAll(dt) \/ IsAll(t)
                    THEN Linked(dt, t)
                    ELSE Linked(dt, t) <=> dt.pvt = t.pvt

\* the call of StateManager.initialize that has just returned
LastInit == hist.last_init

\* the file is missing or cannot be parsed as a status file: it cannot be
\* decoded, or its first row is not the header id,status
FullRunFile(f) ==
    \/ ~f.exists
    \/ \E i \in 1..Len(f.content) : SubSeq(f.content, i, i) = BadByte
    \/ ReadRows(f.content) = <<>>
    \/ Head(ReadRows(f.content)) # <<"id", "status">>

\* the ids of the targets ts
IdsOf(ts) == {TargetId(t) : t \in Range(ts)}

\* the dict d and the dict e are the same map
SameMap(d, e) ==
    /\ Len(d) = Len(e)
    /\ DictKeys(d) = DictKeys(e)
    /\ \A id \in DictKeys(d) : GetStatus(d, id) = GetStatus(e, id)

\* C21: when initialize finds no status file, or one that cannot be parsed,
\* it calls the clean hook exactly once (when one is supplied), returns
\* false, and leaves the map and the file listing exactly the targets of
\* all_targets, each once and PENDING, whatever the manager held before.
C21_FullRunInit ==
    (LastInit.called /\ FullRunFile(LastInit.before)) =>
        /\ LastInit.cleaned = (IF LastInit.hook THEN 1 ELSE 0)
        /\ ~LastInit.ret
        /\ DictKeys(state) = IdsOf(LastInit.all_targets)
        /\ Len(state) = Cardinality(IdsOf(LastInit.all_targets))
        /\ \A i \in DOMAIN state : state[i][2] = "PENDING"
        /\ file.exists
        /\ FileRows(file) = <<FileHeader>> \o state

\* C21 witness: initialize with a hook and targets has returned on a manager
\* that held entries and found a file that cannot be parsed
C21_Witness ==
    /\ LastInit.called
    /\ FullRunFile(LastInit.before)
    /\ LastInit.before.exists
    /\ LastInit.hook
    /\ LastInit.held
    /\ LastInit.all_targets # <<>>

\* C21 witness: the same with the file missing
C21_WitnessMissing ==
    /\ LastInit.called
    /\ ~LastInit.before.exists
    /\ LastInit.hook
    /\ LastInit.held
    /\ LastInit.all_targets # <<>>

\* the rows after the header of the file initialize found that have an id
\* and a status cell
RowsBefore ==
    LET rows == Tail(FileRows(LastInit.before))
    IN [k \in {m \in DOMAIN rows : Len(rows[m]) >= 2} |-> rows[k]]

\* C22: when initialize finds a status file it can parse, it returns true
\* and does not call the clean hook; every id of the file has the status
\* of its (last) row, PENDING when that is no status name; every id of
\* all_targets that the file lacks is PENDING; the ids of the file that are
\* not in all_targets stay in the map; and a row the user flipped from PASS
\* to PENDING is PENDING.
C22_IncrementalInit ==
    (LastInit.called /\ ~FullRunFile(LastInit.before)) =>
        /\ LastInit.ret
        /\ LastInit.cleaned = 0
        /\ \A k \in DOMAIN RowsBefore :
              (\A m \in DOMAIN RowsBefore :
                   RowsBefore[m][1] = RowsBefore[k][1] => m <= k) =>
                  /\ DictHas(state, RowsBefore[k][1])
                  /\ GetStatus(state, RowsBefore[k][1]) =
                         IF RowsBefore[k][2] \in {"PENDING", "RUNNING", "PASS", "FAIL"}
                         THEN RowsBefore[k][2] ELSE "PENDING"
        /\ \A id \in IdsOf(LastInit.all_targets) :
              /\ DictHas(state, id)
              /\ id \notin {RowsBefore[k][1] : k \in DOMAIN RowsBefore} =>
                     GetStatus(state, id) = "PENDING"
        /\ DictKeys(state) = {RowsBefore[k][1] : k \in DOMAIN RowsBefore}
                                 \cup IdsOf(LastInit.all_targets)
        /\ LastInit.written.edited # "" =>
              GetStatus(state, LastInit.written.edited) = "PENDING"

\* C22 witness: initialize with a hook has returned on a file with a row of
\* a target that is not in all_targets and without a row for one that is
C22_Witness ==
    /\ LastInit.called
    /\ ~FullRunFile(LastInit.before)
    /\ LastInit.hook
    /\ \E k \in DOMAIN RowsBefore : RowsBefore[k][1] \notin IdsOf(LastInit.all_targets)
    /\ \E id \in IdsOf(LastInit.all_targets) :
          id \notin {RowsBefore[k][1] : k \in DOMAIN RowsBefore}

\* C22 witness: initialize has returned on a file the user had edited
C22_WitnessEdited ==
    LastInit.called /\ LastInit.written.edited # ""

\* C22 witness: initialize has returned on a file with an unknown status
C22_WitnessUnknown ==
    /\ LastInit.called
    /\ ~FullRunFile(LastInit.before)
    /\ \E k \in DOMAIN RowsBefore : RowsBefore[k][2] \notin TargetStatus

\* C23: when a new StateManager initializes from the file another wrote,
\* with all_targets among the ids of the map that was written, its map is
\* the map that was written.
C23_RoundTrip ==
    (/\ LastInit.called
     /\ LastInit.fresh
     /\ LastInit.written.by_sm
     /\ IdsOf(LastInit.all_targets) \subseteq DictKeys(LastInit.written.map)) =>
        SameMap(state, LastInit.written.map)

\* C23 witness: such a load of a map of two entries, one with an id that
\* is written between quotes
C23_Witness ==
    /\ LastInit.called
    /\ LastInit.fresh
    /\ LastInit.written.by_sm
    /\ LastInit.all_targets # <<>>
    /\ IdsOf(LastInit.all_targets) \subseteq DictKeys(LastInit.written.map)
    /\ Len(LastInit.written.map) >= 2
    /\ \E id \in DictKeys(LastInit.written.map) : QuoteField(id) # id


\* executor.submit raised during this run, and the exception left run
SubmitRaised ==
    /\ At(Driver, "run", "raised")
    /\ \E id \in AllIds(cfg) : hist.submit_calls[id] > 0

\* C24: when executor.submit raises for a target, the run fails but the
\* targets already submitted in this run are drained: each has had its
\* callback and is PASS or FAIL, in memory and in the status file; none is
\* left RUNNING.
C24_SubmitFailureDrains ==
    SubmitRaised =>
        \A id \in eng.submitted_jobs :
            /\ cb_calls[id] >= 1
            /\ GetStatus(state, id) \in {"PASS", "FAIL"}
            /\ NextRunStatus(id) \in {"PASS", "FAIL"}

\* executor.submit was called for the target in this run
SubmitCalled(id) == hist.submit_calls[id] > 0

\* C27: targets are submitted in topological order: when a target is
\* submitted, each of its direct predecessors that is submitted in this run
\* at all has been submitted before it, and so has every dependency id
\* passed to executor.submit with it.
C27_TopologicalSubmission ==
    \A tid \in AllIds(cfg) :
        SubmitCalled(tid) =>
            /\ hist.declared[tid] \subseteq hist.earlier[tid]
            /\ \A d \in Range(eng.graph_in[tid]) :
                   SubmitCalled(d) => d \in hist.earlier[tid]

\* position of an id in the order of registration
Registered(id) ==
    CHOOSE i \in DOMAIN AllTargets(cfg) : TargetId(AllTargets(cfg)[i]) = id

\* a target registered before one of its predecessors was submitted with
\* that predecessor as a dependency: the sort moved it behind
C27_Witness ==
    \E tid \in AllIds(cfg) :
        /\ SubmitCalled(tid)
        /\ \E d \in hist.declared[tid] : Registered(tid) < Registered(d)

\* a target was submitted while one of its predecessors was skipped as PASS
C27_WitnessSkipped ==
    \E tid \in AllIds(cfg) :
        /\ SubmitCalled(tid)
        /\ \E d \in Range(eng.graph_in[tid]) :
               ~SubmitCalled(d) /\ d \notin hist.declared[tid]
        /\ eng.i > Len(eng.sorted_targets)

\* the wait calls of the LSFExecutor that have returned
ReturnedWaits == {w \in DOMAIN lsf.wait_calls : lsf.wait_calls[w].returned}

\* wait call w saw the cluster report DONE or EXIT for the id and called
\* the callback of the id with it
ReportedIn(w, tid) ==
    \E r \in lsf.reports :
        r.wait = w /\ r.tid = tid /\ r.status \in {"DONE", "EXIT"} /\ r.called

\* C25: LSFExecutor.wait(ids) returns only after the cluster has reported
\* DONE or EXIT for every listed id and the callback of the id has been
\* called with that outcome, and the callback of an id is called once.
C25_WaitReportsAll ==
    /\ \A w \in ReturnedWaits :
           \A tid \in lsf.wait_calls[w].ids : ReportedIn(w, tid)
    /\ \A tid \in AllIds(cfg) : cb_calls[tid] <= 1

\* the backend id recorded for the id when the bsub call a was made, ""
\* when none was
RecordedFor(a, id) == DictGet(a.recorded, id, "")

\* the wait expression of one or two backend ids
DoneAll(ns) ==
    IF Len(ns) = 1 THEN "done(" \o ns[1] \o ")"
    ELSE "done(" \o ns[1] \o ") && done(" \o ns[2] \o ")"

\* the bsub calls whose dependency ids all had a backend id recorded
DepsRecorded ==
    {k \in DOMAIN lsf.bsub :
        \A d \in Range(lsf.bsub[k].deps) : RecordedFor(lsf.bsub[k], d) # ""}

C26_WitnessNoDeps ==
    \E k \in DepsRecorded : k > 1 /\ lsf.bsub[k].deps = <<>>

\* how often the job was handed to the pool as _run_job: the entries still
\* in the queue of the pool, those a worker has taken and not started, and
\* the executions started
Dispatches(j) ==
    Cardinality({k \in DOMAIN pool : pool[k] = [fn |-> "_run_job", job |-> j]})
    + Cardinality({t \in Threads :
                     \E k \in DOMAIN stack[t] :
                         /\ stack[t][k].fn = "_run_job"
                         /\ stack[t][k].pc = "spawn"
                         /\ stack[t][k].job = j})
    + spawned[j]

\* the future of the job was failed without the job having been executed:
\* by a failed dependency
FailedByDependency(j) == futures[j] = "EXCEPTION" /\ spawned[j] = 0

\* C29: LocalExecutor hands a job to the pool at most once, so its command
\* runs at most once, also when several of its dependencies complete at the
\* same time; a job failed by a dependency is not handed to the pool at all.
C29_AtMostOnce ==
    \A j \in AllIds(cfg) :
        /\ Dispatches(j) <= 1
        /\ FailedByDependency(j) => Dispatches(j) = 0

\* the threads inside _on_dependency_complete for the job
InHook(j) ==
    {t \in Threads :
        \E k \in DOMAIN stack[t] :
            stack[t][k].fn = "_on_dependency_complete" /\ stack[t][k].job = j}

\* a job that lay dormant on two dependencies has been executed
C29_Witness ==
    \E j \in AllIds(cfg) :
        Cardinality(hist.waited_for[j]) = 2 /\ spawned[j] = 1

\* two dependencies of a dormant job have completed at the same time: two
\* threads are inside _on_dependency_complete for it
C29_WitnessConcurrent ==
    \E j \in AllIds(cfg) :
        Cardinality(InHook(j)) = 2 /\ j \in DOMAIN pending_dependencies

\* a job was failed by one dependency, and the hook of another dependency,
\* which succeeded, runs for it afterwards
C29_WitnessFailedFirst ==
    \E t \in Threads :
        /\ At(t, "_on_dependency_complete", "body")
        /\ Top(t).ok
        /\ FailedByDependency(Top(t).job)

\* the run started from a persisted state in which every PASS target had
\* its direct predecessors of the derived graph PASS
StartClosed ==
    \A id \in AllIds(cfg) :
        GetStatus(eng.start_status, id) = "PASS" =>
            \A p \in Range(GraphIn(cfg, id)) :
                GetStatus(eng.start_status, p) = "PASS"

\* C28: the persisted state after a run, one of any sequence of runs over
\* the same kits without an edit of the status file, has the direct
\* predecessors of every PASS target PASS: a run that starts from such a
\* state leaves such a state behind, whatever jobs succeed or fail.
C28_PassImpliesPredecessorsPass ==
    (RunReturned /\ Stopped /\ StartClosed) =>
        \A id \in AllIds(cfg) :
            NextRunStatus(id) = "PASS" =>
                \A p \in Range(GraphIn(cfg, id)) : NextRunStatus(p) = "PASS"

\* every thread is idle or blocked for ever: the program is between calls,
\* or stuck in one
AtRest == \A t \in Threads : At(t, "client", "idle") \/ ~CanStep(t)

\* C30: LocalExecutor.submit ignores a dependency id that was never
\* submitted: the job does not wait for it, is not failed unless a
\* dependency it knows failed, and once the dependencies it knows have all
\* succeeded and the executor has come to rest it has been executed.
C30_UnknownDependencyIgnored ==
    \A j \in Range(LocalIds) :
        (Unknown \in hist.declared[j] /\ futures[j] # "NONE") =>
            /\ j \in DOMAIN pending_dependencies =>
                   Unknown \notin pending_dependencies[j]
            /\ FailedByDependency(j) =>
                   \E d \in hist.declared[j] : futures[d] = "EXCEPTION"
            /\ (AtRest /\ \A d \in hist.declared[j] \ {Unknown} :
                                futures[d] = "RESULT") =>
                   spawned[j] = 1
====
